---- MODULE Spec2Model ----
(***************************************************************************)
(* A model of ivy/ivy_mypyvy.py: the translation of an Ivy module into a   *)
(* mypyvy program (check_isolate and the classes Translation and           *)
(* MypyvyProgram).                                                         *)
(*                                                                         *)
(* Names are sequences of one-character strings, so that to_pyv_name is    *)
(* modelled by the character replacement it performs.  Formulas of the     *)
(* three layers (Ivy logic, solver, mypyvy) are trees of records.          *)
(***************************************************************************)
EXTENDS Integers, Sequences, FiniteSets, TLC

(***************************************************************************)
(* Bounds of the model.                                                    *)
(***************************************************************************)
\* the largest number of actions of a module
MaxActions == 2
\* the largest number of values of the enumerated sort
MaxEnum == 2

(***************************************************************************)
(* Generic helpers on sequences and sets.                                  *)
(***************************************************************************)
Range(s) == { s[i] : i \in 1..Len(s) }

RECURSIVE Flatten(_)
Flatten(ss) == IF ss = <<>> THEN <<>> ELSE Head(ss) \o Flatten(Tail(ss))

RECURSIVE UnionAll(_)
UnionAll(ss) == IF ss = <<>> THEN {} ELSE Head(ss) \cup UnionAll(Tail(ss))

\* every enumeration order of a finite set (the iteration orders of a Python set)
RECURSIVE Orders(_)
Orders(S) == IF S = {} THEN { <<>> }
             ELSE UNION { { <<x>> \o o : o \in Orders(S \ {x}) } : x \in S }

(***************************************************************************)
(* Characters and the order of Python's string comparison (code points).   *)
(***************************************************************************)
CodePoints == << ".", "0", "1", "2", "3", "4", ":", "B", "V", "X", "Y", "[", "]",
                 "_", "a", "b", "c", "d", "e", "f", "g", "h", "i", "k", "l", "m",
                 "n", "o", "p", "q", "r", "s", "t", "u", "v", "w", "x", "y", "z" >>

Digit(i) == CodePoints[i + 2]

Ord(ch) == CHOOSE i \in 1..Len(CodePoints) : CodePoints[i] = ch

RECURSIVE StrLess(_, _)
StrLess(a, b) ==
    IF b = <<>> THEN FALSE
    ELSE IF a = <<>> THEN TRUE
    ELSE IF Head(a) = Head(b) THEN StrLess(Tail(a), Tail(b))
    ELSE Ord(Head(a)) < Ord(Head(b))

\* sorted(S) for a finite set of names
RECURSIVE sorted(_)
sorted(S) ==
    IF S = {} THEN <<>>
    ELSE LET m == CHOOSE x \in S : \A y \in S \ {x} : StrLess(x, y)
         IN  <<m>> \o sorted(S \ {m})

startswith(name, prefix) ==
    /\ Len(name) >= Len(prefix)
    /\ SubSeq(name, 1, Len(prefix)) = prefix

(***************************************************************************)
(* Module constants (ivy_mypyvy.py lines 25-33).                           *)
(***************************************************************************)
DOT_REPLACEMENT == << "_" >>
BRACE_REPLACEMENT == << "_", "B", "_" >>
COLON_REPLACEMENT == << "_", "c", "_" >>
IVY_TEMPORARY_INDICATOR == << "_", "_", "m", "_" >>

\* ivy_transrel: the post-state version of a symbol is named new_<name>,
\* and a skolem (existential witness) is named __<name>
NEW_PREFIX == << "n", "e", "w", "_" >>
SKOLEM_PREFIX == << "_", "_" >>

(***************************************************************************)
(* Translation.to_pyv_name                                                 *)
(***************************************************************************)
RECURSIVE replace(_, _, _)
replace(name, ch, by) ==
    IF \A i \in 1..Len(name) : name[i] # ch THEN name
    ELSE (IF Head(name) = ch THEN by ELSE << Head(name) >>)
         \o replace(Tail(name), ch, by)

to_pyv_name(ivy_name) ==
    replace(replace(replace(replace(ivy_name, ".", DOT_REPLACEMENT),
                            "[", BRACE_REPLACEMENT),
                    "]", BRACE_REPLACEMENT),
            ":", COLON_REPLACEMENT)

(***************************************************************************)
(* Ivy sorts (ivy_logic) and symbols.  A sort is a record                  *)
(*   [k, name, ext, dom, rng]                                              *)
(* with k one of "uninterpreted", "enumerated", "boolean", "function" and  *)
(* "other" (a sort of a kind the translation does not handle); ext is the  *)
(* list of value names of an enumerated sort, dom the list of domain sorts *)
(* of a function sort and rng the list holding its range sort.             *)
(***************************************************************************)
UninterpretedSort(name) ==
    [k |-> "uninterpreted", name |-> name, ext |-> <<>>, dom |-> <<>>, rng |-> <<>>]
EnumeratedSort(name, ext) ==
    [k |-> "enumerated", name |-> name, ext |-> ext, dom |-> <<>>, rng |-> <<>>]
BooleanSort ==
    [k |-> "boolean", name |-> <<"b","o","o","l">>, ext |-> <<>>, dom |-> <<>>, rng |-> <<>>]
FunctionSort(dom, rng) ==
    [k |-> "function", name |-> <<>>, ext |-> <<>>, dom |-> dom, rng |-> <<rng>>]

is_first_order_sort(s) == s.k = "uninterpreted"
is_enumerated_sort(s) == s.k = "enumerated"
is_boolean_sort(s) == s.k = "boolean"
is_function_sort(s) == s.k = "function"

\* a symbol (il.Symbol, lg.Const) and a variable (lg.Var)
Symbol(name, sort) == [name |-> name, sort |-> sort]
NoSymbol == Symbol(<<>>, BooleanSort)

\* ivy_transrel: new, is_new, new_of, is_skolem
new(sym) == Symbol(NEW_PREFIX \o sym.name, sym.sort)
is_new(sym) == startswith(sym.name, NEW_PREFIX)
new_of(sym) == Symbol(SubSeq(sym.name, Len(NEW_PREFIX) + 1, Len(sym.name)), sym.sort)
is_skolem(sym) == startswith(sym.name, SKOLEM_PREFIX)

(***************************************************************************)
(* Formulas of the Ivy logic layer (logic.py): records [op, sym, vars,     *)
(* args].                                                                  *)
(***************************************************************************)
LgNode(op, sym, vars, args) == [op |-> op, sym |-> sym, vars |-> vars, args |-> args]
LgForAll(vars, body) == LgNode("ForAll", NoSymbol, vars, <<body>>)
LgExists(vars, body) == LgNode("Exists", NoSymbol, vars, <<body>>)
LgIte(c, t, e) == LgNode("Ite", NoSymbol, <<>>, <<c, t, e>>)
LgAnd(terms) == LgNode("And", NoSymbol, <<>>, terms)
LgOr(terms) == LgNode("Or", NoSymbol, <<>>, terms)
LgEq(t1, t2) == LgNode("Eq", NoSymbol, <<>>, <<t1, t2>>)
LgImplies(t1, t2) == LgNode("Implies", NoSymbol, <<>>, <<t1, t2>>)
LgIff(t1, t2) == LgNode("Iff", NoSymbol, <<>>, <<t1, t2>>)
LgNot(body) == LgNode("Not", NoSymbol, <<>>, <<body>>)
LgApply(func, terms) == LgNode("Apply", func, <<>>, terms)
LgConst(sym) == LgNode("Const", sym, <<>>, <<>>)
LgVar(v) == LgNode("Var", v, <<>>, <<>>)

\* lines 30-31
_true == LgAnd(<<>>)
_false == LgOr(<<>>)

\* fmla.symbols(): the constants and applied symbols of a formula (no variables)
RECURSIVE symbols(_)
symbols(fmla) ==
    (IF fmla.op \in {"Apply", "Const"} THEN {fmla.sym} ELSE {})
    \cup UNION { symbols(fmla.args[i]) : i \in 1..Len(fmla.args) }

(***************************************************************************)
(* mypyvy sorts and expressions (mypyvy_syntax).  A sort is a record       *)
(* [k, name, dom, rng]; an expression is a record [cls, op, name, vars,    *)
(* args] whose cls is the class the translator dispatches on.              *)
(***************************************************************************)
PyvUninterpretedSort(name) == [k |-> "UninterpretedSort", name |-> name, dom |-> <<>>, rng |-> <<>>]
PyvBoolSort == [k |-> "BoolSort", name |-> <<>>, dom |-> <<>>, rng |-> <<>>]
PyvRelSort(dom) == [k |-> "relation", name |-> <<>>, dom |-> dom, rng |-> <<>>]
PyvFunSort(dom, rng) == [k |-> "function", name |-> <<>>, dom |-> dom, rng |-> <<rng>>]
PyvNoSort == [k |-> "none", name |-> <<>>, dom |-> <<>>, rng |-> <<>>]

PyvNode(cls, op, name, vars, args) ==
    [cls |-> cls, op |-> op, name |-> name, vars |-> vars, args |-> args]
PyvTrueExpr == PyvNode("Bool", "TRUE", <<>>, <<>>, <<>>)
PyvFalseExpr == PyvNode("Bool", "FALSE", <<>>, <<>>, <<>>)
PyvNot(e) == PyvNode("UnaryExpr", "NOT", <<>>, <<>>, <<e>>)
PyvNew(e) == PyvNode("UnaryExpr", "NEW", <<>>, <<>>, <<e>>)
PyvEq(a, b) == PyvNode("BinaryExpr", "EQUAL", <<>>, <<>>, <<a, b>>)
PyvImplies(a, b) == PyvNode("BinaryExpr", "IMPLIES", <<>>, <<>>, <<a, b>>)
PyvIff(a, b) == PyvNode("BinaryExpr", "IFF", <<>>, <<>>, <<a, b>>)
PyvNaryExpr(op, args) == PyvNode("NaryExpr", op, <<>>, <<>>, args)
\* pyv.And and pyv.Or: no argument gives the constant, one argument gives it back
PyvAnd(args) == IF args = <<>> THEN PyvTrueExpr
                ELSE IF Len(args) = 1 THEN args[1]
                ELSE PyvNaryExpr("AND", args)
PyvOr(args) == IF args = <<>> THEN PyvFalseExpr
               ELSE IF Len(args) = 1 THEN args[1]
               ELSE PyvNaryExpr("OR", args)
PyvForall(vs, body) == PyvNode("QuantifierExpr", "FORALL", <<>>, vs, <<body>>)
PyvExists(vs, body) == PyvNode("QuantifierExpr", "EXISTS", <<>>, vs, <<body>>)
PyvIfThenElse(c, t, e) == PyvNode("IfThenElse", "ITE", <<>>, <<>>, <<c, t, e>>)
PyvApply(callee, args) == PyvNode("AppExpr", "APP", callee, <<>>, args)
PyvId(name) == PyvNode("Id", "ID", name, <<>>, <<>>)
PyvSortedVar(name, sort) == [name |-> name, sort |-> sort]

(***************************************************************************)
(* Translation.sort_type, Translation.to_pyv_sort                          *)
(***************************************************************************)
sort_type(ivy_sort) ==
    IF is_function_sort(ivy_sort) /\ is_boolean_sort(ivy_sort.rng[1]) THEN "relation"
    ELSE IF is_function_sort(ivy_sort) THEN "function"
    ELSE "individual"

\* the sorts to_pyv_sort raises NotImplementedError on
RECURSIVE sort_supported(_)
sort_supported(ivy_sort) ==
    \/ ivy_sort.k \in {"uninterpreted", "enumerated", "boolean"}
    \/ /\ is_function_sort(ivy_sort)
       /\ \A i \in 1..Len(ivy_sort.dom) : sort_supported(ivy_sort.dom[i])
       /\ (is_boolean_sort(ivy_sort.rng[1]) \/ sort_supported(ivy_sort.rng[1]))

RECURSIVE to_pyv_sort(_)
to_pyv_sort(ivy_sort) ==
    IF is_first_order_sort(ivy_sort) \/ is_enumerated_sort(ivy_sort)
    THEN PyvUninterpretedSort(ivy_sort.name)
    ELSE IF is_boolean_sort(ivy_sort) THEN PyvBoolSort
    ELSE IF is_function_sort(ivy_sort) /\ is_boolean_sort(ivy_sort.rng[1])
    THEN PyvRelSort([i \in 1..Len(ivy_sort.dom) |-> to_pyv_sort(ivy_sort.dom[i])])
    ELSE IF is_function_sort(ivy_sort)
    THEN PyvFunSort([i \in 1..Len(ivy_sort.dom) |-> to_pyv_sort(ivy_sort.dom[i])],
                    to_pyv_sort(ivy_sort.rng[1]))
    ELSE PyvNoSort

(***************************************************************************)
(* Translation.translate_binders                                           *)
(***************************************************************************)
translate_binders(binders) ==
    [i \in 1..Len(binders) |->
        PyvSortedVar(to_pyv_name(binders[i].name), to_pyv_sort(binders[i].sort))]

(***************************************************************************)
(* Declarations of the mypyvy program: records                             *)
(*   [cls, name, sort, mutable, params, mods, body].                       *)
(***************************************************************************)
Decl(cls, name, sort, mutable, params, mods, body) ==
    [cls |-> cls, name |-> name, sort |-> sort, mutable |-> mutable,
     params |-> params, mods |-> mods, body |-> body]
SortDecl(name) == Decl("SortDecl", name, PyvNoSort, FALSE, <<>>, <<>>, PyvTrueExpr)
ConstantDecl(name, sort, mutable) ==
    Decl("ConstantDecl", name, sort, mutable, <<>>, <<>>, PyvTrueExpr)
RelationDecl(name, sort, mutable) ==
    Decl("RelationDecl", name, sort, mutable, <<>>, <<>>, PyvTrueExpr)
FunctionDecl(name, sort, mutable) ==
    Decl("FunctionDecl", name, sort, mutable, <<>>, <<>>, PyvTrueExpr)
AxiomDecl(name, expr) == Decl("AxiomDecl", name, PyvNoSort, FALSE, <<>>, <<>>, expr)
InitDecl(expr) == Decl("InitDecl", <<>>, PyvNoSort, FALSE, <<>>, <<>>, expr)
InvariantDecl(name, expr) == Decl("InvariantDecl", name, PyvNoSort, FALSE, <<>>, <<>>, expr)
\* DefinitionDecl(True, 2, name, params, mods, expr); a ModifiesClause is its name
DefinitionDecl(name, params, mods, expr) ==
    Decl("DefinitionDecl", name, PyvNoSort, FALSE, params, mods, expr)

(***************************************************************************)
(* Translation.translate_symbol_decl                                       *)
(***************************************************************************)
translate_symbol_decl(sym, is_mutable) ==
    LET kind == sort_type(sym.sort)
        name == to_pyv_name(sym.name)
    IN  IF kind = "individual"
        THEN ConstantDecl(name, to_pyv_sort(sym.sort), is_mutable)
        ELSE IF kind = "relation"
        THEN RelationDecl(name, to_pyv_sort(sym.sort), is_mutable)
        ELSE FunctionDecl(name, to_pyv_sort(sym.sort), is_mutable)

(***************************************************************************)
(* Translation.translate_logic_fmla                                        *)
(***************************************************************************)
\* a translation that marks the post-state symbols in either mode
RECURSIVE translate_logic_fmla_marking_in_either_mode(_, _)
translate_logic_fmla_marking_in_either_mode(fmla, is_twostate) ==
    LET sub == [i \in 1..Len(fmla.args) |->
                  translate_logic_fmla_marking_in_either_mode(fmla.args[i], is_twostate)]
    IN  CASE fmla.op = "ForAll" -> PyvForall(translate_binders(fmla.vars), sub[1])
          [] fmla.op = "Exists" -> PyvExists(translate_binders(fmla.vars), sub[1])
          [] fmla.op = "Ite" -> PyvIfThenElse(sub[1], sub[2], sub[3])
          [] fmla.op = "And" -> IF Len(fmla.args) = 0 THEN PyvTrueExpr ELSE PyvAnd(sub)
          [] fmla.op = "Or" -> IF Len(fmla.args) = 0 THEN PyvFalseExpr ELSE PyvOr(sub)
          [] fmla.op = "Eq" -> PyvEq(sub[1], sub[2])
          [] fmla.op = "Implies" -> PyvImplies(sub[1], sub[2])
          [] fmla.op = "Iff" -> PyvIff(sub[1], sub[2])
          [] fmla.op = "Not" -> PyvNot(sub[1])
          [] fmla.op = "Apply" ->
                IF is_new(fmla.sym)
                THEN PyvNew(PyvApply(to_pyv_name(new_of(fmla.sym).name), sub))
                ELSE PyvApply(to_pyv_name(fmla.sym.name), sub)
          [] fmla.op = "Const" ->
                IF is_new(fmla.sym)
                THEN PyvNew(PyvId(to_pyv_name(new_of(fmla.sym).name)))
                ELSE PyvId(to_pyv_name(fmla.sym.name))
          [] fmla.op = "Var" -> PyvId(to_pyv_name(fmla.sym.name))

RECURSIVE translate_logic_fmla(_, _)
translate_logic_fmla(fmla, is_twostate) ==
    LET sub == [i \in 1..Len(fmla.args) |-> translate_logic_fmla(fmla.args[i], is_twostate)]
    IN  CASE fmla.op = "ForAll" -> PyvForall(translate_binders(fmla.vars), sub[1])
          [] fmla.op = "Exists" -> PyvExists(translate_binders(fmla.vars), sub[1])
          [] fmla.op = "Ite" -> PyvIfThenElse(sub[1], sub[2], sub[3])
          [] fmla.op = "And" -> IF Len(fmla.args) = 0 THEN PyvTrueExpr ELSE PyvAnd(sub)
          [] fmla.op = "Or" -> IF Len(fmla.args) = 0 THEN PyvFalseExpr ELSE PyvOr(sub)
          [] fmla.op = "Eq" -> PyvEq(sub[1], sub[2])
          [] fmla.op = "Implies" -> PyvImplies(sub[1], sub[2])
          [] fmla.op = "Iff" -> PyvIff(sub[1], sub[2])
          [] fmla.op = "Not" -> PyvNot(sub[1])
          [] fmla.op = "Apply" ->
                IF is_twostate /\ is_new(fmla.sym)
                THEN PyvNew(PyvApply(to_pyv_name(new_of(fmla.sym).name), sub))
                ELSE PyvApply(to_pyv_name(fmla.sym.name), sub)
          [] fmla.op = "Const" ->
                IF is_twostate /\ is_new(fmla.sym)
                THEN PyvNew(PyvId(to_pyv_name(new_of(fmla.sym).name)))
                ELSE PyvId(to_pyv_name(fmla.sym.name))
          [] fmla.op = "Var" -> PyvId(to_pyv_name(fmla.sym.name))

(***************************************************************************)
(* Translation.globals_in_fmla                                             *)
(***************************************************************************)
RECURSIVE globals_in_fmla(_)
globals_in_fmla(fmla) ==
    LET sub == UNION { globals_in_fmla(fmla.args[i]) : i \in 1..Len(fmla.args) }
    IN  CASE fmla.op \in {"Apply", "Const"} -> {fmla.sym.name} \cup sub
          [] fmla.op = "Var" -> {}
          [] OTHER -> sub

(***************************************************************************)
(* Translation.pyv_globals_under_new                                       *)
(***************************************************************************)
RECURSIVE pyv_globals_under_new(_, _, _)
pyv_globals_under_new(globals, e, under_new) ==
    LET sub(un) == UNION { pyv_globals_under_new(globals, e.args[i], un)
                           : i \in 1..Len(e.args) }
    IN  CASE e.cls = "Bool" -> {}
          [] e.cls = "UnaryExpr" -> IF e.op = "NEW" THEN sub(TRUE) ELSE sub(under_new)
          [] e.cls \in {"BinaryExpr", "NaryExpr", "QuantifierExpr", "IfThenElse"} ->
                sub(under_new)
          [] e.cls = "AppExpr" ->
                sub(under_new) \cup (IF under_new THEN {e.name} ELSE {})
          [] e.cls = "Id" ->
                IF under_new /\ e.name \in globals THEN {e.name} ELSE {}

(***************************************************************************)
(* Translation.pyv_havoc_symbol, Translation.pyv_unchanged_symbol          *)
(***************************************************************************)
VarV == <<"V">>
VarX(i) == <<"X", Digit(i)>>

pyv_havoc_symbol(s) ==
    LET sort == s.sort
        sym == new(s)
        rng == IF is_function_sort(sort) THEN sort.rng[1] ELSE sort
        dom == sort.dom
        vvar == Symbol(VarV, rng)
        uvars == [i \in 1..Len(dom) |-> Symbol(VarX(i - 1), dom[i])]
        ex == LgExists(<<vvar>>,
                       LgEq(LgApply(sym, [i \in 1..Len(dom) |-> LgVar(uvars[i])]),
                            LgVar(vvar)))
        fmla == IF Len(dom) = 0
                THEN LgExists(<<vvar>>, LgEq(LgConst(sym), LgVar(vvar)))
                ELSE LgForAll(uvars, ex)
    IN  translate_logic_fmla(fmla, TRUE)

pyv_unchanged_symbol(s) ==
    LET sort == s.sort
        old_sym == s
        sym == new(s)
        dom == sort.dom
        uvars == [i \in 1..Len(dom) |-> Symbol(VarX(i - 1), dom[i])]
        args == [i \in 1..Len(dom) |-> LgVar(uvars[i])]
        fmla == IF Len(dom) = 0
                THEN LgEq(LgConst(sym), LgConst(old_sym))
                ELSE LgForAll(uvars, LgEq(LgApply(sym, args), LgApply(old_sym, args)))
    IN  translate_logic_fmla(fmla, TRUE)

(***************************************************************************)
(* Formulas of the solver layer (z3): records [op, name, idx, vars, args]. *)
(* A bound variable is a positional (de Bruijn) index, 0 for the innermost *)
(* binder; a quantifier keeps the names and sort names of its binders, the *)
(* name carrying the sort as a suffix ("X:node").                          *)
(***************************************************************************)
ZNode(op, name, idx, vars, args) ==
    [op |-> op, name |-> name, idx |-> idx, vars |-> vars, args |-> args]
ZTrue == ZNode("true", <<>>, 0, <<>>, <<>>)
ZFalse == ZNode("false", <<>>, 0, <<>>, <<>>)
ZVar(i) == ZNode("var", <<>>, i, <<>>, <<>>)
ZApp(name, args) == ZNode(IF args = <<>> THEN "const" ELSE "app", name, 0, <<>>, args)
ZOp(op, args) == ZNode(op, <<>>, 0, <<>>, args)
ZQuant(op, vars, body) == ZNode(op, <<>>, 0, vars, <<body>>)

Reverse(s) == [i \in 1..Len(s) |-> s[Len(s) + 1 - i]]

\* the sort of a term of the logic layer is Boolean
RECURSIVE is_bool_term(_)
is_bool_term(t) ==
    CASE t.op \in {"Const", "Var"} -> is_boolean_sort(t.sym.sort)
      [] t.op = "Apply" -> is_boolean_sort(t.sym.sort.rng[1])
      [] t.op = "Ite" -> is_bool_term(t.args[2])
      [] OTHER -> TRUE

(***************************************************************************)
(* ivy_solver.formula_to_z3: the solver has one operator for the equality  *)
(* of two Boolean terms, the equivalence; And() and Or() are its constants *)
(* true and false.                                                         *)
(***************************************************************************)
RECURSIVE to_z3(_, _)
to_z3(fmla, bound) ==
    LET sub == [i \in 1..Len(fmla.args) |-> to_z3(fmla.args[i], bound)]
        zvars == [i \in 1..Len(fmla.vars) |->
                    [name |-> fmla.vars[i].name \o <<":">> \o fmla.vars[i].sort.name,
                     sort |-> fmla.vars[i].sort.name]]
        inner == to_z3(fmla.args[1], Reverse(fmla.vars) \o bound)
    IN  CASE fmla.op = "ForAll" -> ZQuant("forall", zvars, inner)
          [] fmla.op = "Exists" -> ZQuant("exists", zvars, inner)
          [] fmla.op = "Ite" -> ZOp("ite", sub)
          [] fmla.op = "And" -> IF sub = <<>> THEN ZTrue ELSE ZOp("and", sub)
          [] fmla.op = "Or" -> IF sub = <<>> THEN ZFalse ELSE ZOp("or", sub)
          [] fmla.op = "Eq" ->
                IF is_bool_term(fmla.args[1]) THEN ZOp("iff", sub) ELSE ZOp("eq", sub)
          [] fmla.op = "Implies" -> ZOp("implies", sub)
          [] fmla.op = "Iff" -> ZOp("iff", sub)
          [] fmla.op = "Not" -> ZOp("not", sub)
          [] fmla.op = "Apply" -> ZApp(fmla.sym.name, sub)
          [] fmla.op = "Const" -> ZApp(fmla.sym.name, <<>>)
          [] fmla.op = "Var" ->
                IF \E i \in 1..Len(bound) : bound[i] = fmla.sym
                THEN ZVar((CHOOSE i \in 1..Len(bound) :
                             /\ bound[i] = fmla.sym
                             /\ \A j \in 1..(i - 1) : bound[j] # fmla.sym) - 1)
                ELSE ZApp(fmla.sym.name, <<>>)

formula_to_z3(fmla) == to_z3(fmla, <<>>)

(***************************************************************************)
(* Translation.smt_binder_name_to_ivy_name, Translation.smt_binders_to_ivy *)
(***************************************************************************)
RECURSIVE smt_binder_name_to_ivy_name(_)
smt_binder_name_to_ivy_name(name) ==
    IF name = <<>> \/ Head(name) = ":" THEN <<>>
    ELSE <<Head(name)>> \o smt_binder_name_to_ivy_name(Tail(name))

\* sorts[name] and syms[name], for a set of sorts and a set of symbols
SortNamed(sorts, name) == CHOOSE x \in sorts : x.name = name
SymNamed(syms, name) == CHOOSE x \in syms : x.name = name

smt_binders_to_ivy(sorts, fmla) ==
    [i \in 1..Len(fmla.vars) |->
        Symbol(smt_binder_name_to_ivy_name(fmla.vars[i].name),
               SortNamed(sorts, fmla.vars[i].sort))]

(***************************************************************************)
(* Translation.smt_to_ivy.  smt_resolves tells whether every lookup of the *)
(* translation (sorts[...], syms[...], binders[...]) finds its key.        *)
(***************************************************************************)
RECURSIVE smt_resolves(_, _, _, _)
smt_resolves(fmla, sorts, syms, depth) ==
    CASE fmla.op \in {"forall", "exists"} ->
            /\ \A i \in 1..Len(fmla.vars) : \E x \in sorts : x.name = fmla.vars[i].sort
            /\ smt_resolves(fmla.args[1], sorts, syms, depth + Len(fmla.vars))
      [] fmla.op \in {"const", "app"} ->
            /\ \E x \in syms : x.name = fmla.name
            /\ \A i \in 1..Len(fmla.args) : smt_resolves(fmla.args[i], sorts, syms, depth)
      [] fmla.op = "var" -> fmla.idx < depth
      [] OTHER -> \A i \in 1..Len(fmla.args) : smt_resolves(fmla.args[i], sorts, syms, depth)

\* the binders of a quantifier put on the stack in their order of declaration
push_binders_in_order(new_binders, binders) == new_binders \o binders

\* lines 162 and 166: binders = list(reversed(new_binders)) + binders
push_binders(new_binders, binders) == Reverse(new_binders) \o binders

RECURSIVE smt_to_ivy(_, _, _, _)
smt_to_ivy(fmla, sorts, syms, binders) ==
    LET sub == [i \in 1..Len(fmla.args) |-> smt_to_ivy(fmla.args[i], sorts, syms, binders)]
        new_binders == smt_binders_to_ivy(sorts, fmla)
        inner == smt_to_ivy(fmla.args[1], sorts, syms, push_binders(new_binders, binders))
    IN  CASE fmla.op = "forall" -> LgForAll(new_binders, inner)
          [] fmla.op = "exists" -> LgExists(new_binders, inner)
          [] fmla.op = "not" -> LgNot(sub[1])
          [] fmla.op = "and" -> LgAnd(sub)
          [] fmla.op = "or" -> LgOr(sub)
          [] fmla.op = "eq" -> LgEq(sub[1], sub[2])
          [] fmla.op = "implies" -> LgImplies(sub[1], sub[2])
          [] fmla.op = "iff" -> LgIff(sub[1], sub[2])
          [] fmla.op = "ite" -> LgIte(sub[1], sub[2], sub[3])
          [] fmla.op = "true" -> _true
          [] fmla.op = "false" -> _false
          [] fmla.op = "const" -> LgConst(Symbol(fmla.name, SymNamed(syms, fmla.name).sort))
          [] fmla.op = "app" ->
                LgApply(Symbol(fmla.name, SymNamed(syms, fmla.name).sort), sub)
          [] fmla.op = "var" -> LgVar(binders[fmla.idx + 1])

(***************************************************************************)
(* Translation.simplify_via_smt: its helpers.                              *)
(***************************************************************************)
z3_is_app(t) == t.op \notin {"forall", "exists", "var"}
num_args(t) == IF z3_is_app(t) THEN Len(t.args) ELSE 0

\* the names applied in a solver formula
RECURSIVE z3_names(_)
z3_names(t) ==
    (IF t.op \in {"const", "app"} THEN {t.name} ELSE {})
    \cup UNION { z3_names(t.args[i]) : i \in 1..Len(t.args) }

\* subterms: the proper subterms reached through applications; the body of a
\* quantifier is not entered
RECURSIVE subterms(_)
subterms(t) ==
    IF z3_is_app(t)
    THEN UNION { subterms(t.args[i]) \cup {t.args[i]} : i \in 1..Len(t.args) }
    ELSE {}

\* the macro-finder tactic of the solver: a universally quantified equivalence
\* or equality, one side of which applies a symbol, which the other side does
\* not use, to the bound variables, each exactly once
is_macro_head(t, n, other) ==
    /\ t.op = "app"
    /\ Len(t.args) = n
    /\ \A i \in 1..n : t.args[i].op = "var"
    /\ { t.args[i].idx : i \in 1..n } = 0..(n - 1)
    /\ t.name \notin z3_names(other)

is_macro(f) ==
    /\ f.op = "forall"
    /\ f.args[1].op \in {"iff", "eq"}
    /\ \/ is_macro_head(f.args[1].args[1], Len(f.vars), f.args[1].args[2])
       \/ is_macro_head(f.args[1].args[2], Len(f.vars), f.args[1].args[1])

\* the side (1 for the left, 2 for the right) both is_skolem_macro and
\* parse_macro stop at: the first with as many arguments as there are binders
macro_sides(f) ==
    { side \in {1, 2} : num_args(f.args[1].args[side]) = Len(f.vars) }
macro_side(f) ==
    CHOOSE side \in macro_sides(f) : \A o \in macro_sides(f) : side <= o

is_skolem_macro(f) ==
    IF ~is_macro(f) THEN FALSE
    ELSE IF f.op = "forall" /\ macro_sides(f) # {}
    THEN startswith(f.args[1].args[macro_side(f)].name, IVY_TEMPORARY_INDICATOR)
    ELSE FALSE

\* parse_macro: Macro(head, body, num_args, full_fmla)
parse_macro(f) ==
    [head |-> f.args[1].args[macro_side(f)],
     body |-> f.args[1].args[3 - macro_side(f)],
     num_args |-> Len(f.vars),
     full_fmla |-> f]

RECURSIVE remove_macro_definition(_, _)
remove_macro_definition(t, macro) ==
    IF t = macro.full_fmla THEN ZTrue
    ELSE [t EXCEPT !.args = [i \in 1..Len(t.args) |->
                                remove_macro_definition(t.args[i], macro)]]

\* the substitution of terms for variables in a formula of the logic layer
RECURSIVE lg_subst(_, _, _)
lg_subst(fmla, params, actuals) ==
    IF fmla.op = "Var"
    THEN IF \E i \in 1..Len(params) : params[i] = fmla.sym
         THEN actuals[CHOOSE i \in 1..Len(params) : params[i] = fmla.sym]
         ELSE fmla
    ELSE [fmla EXCEPT !.args = [i \in 1..Len(fmla.args) |->
                                   lg_subst(fmla.args[i], params, actuals)]]

\* ivy_proof.unfold_fmla with one definition: every application of the
\* defined symbol is replaced by the body of the definition
RECURSIVE unfold_fmla(_, _, _, _)
unfold_fmla(fmla, head, params, body) ==
    LET sub == [i \in 1..Len(fmla.args) |-> unfold_fmla(fmla.args[i], head, params, body)]
    IN  IF fmla.op = "Apply" /\ fmla.sym.name = head
        THEN lg_subst(body, params, sub)
        ELSE [fmla EXCEPT !.args = sub]

\* a pass that removes the definition and leaves the applications of its head
reduce_with_macro_without_unfolding(fmla, f, sorts, syms) ==
    remove_macro_definition(fmla, parse_macro(f))

\* one pass of the loop of simplify_via_smt with the macro f (lines 624-633)
reduce_with_macro(fmla, f, sorts, syms) ==
    LET macro == parse_macro(f)
        _fmla == remove_macro_definition(fmla, macro)
        iv_fmla == smt_to_ivy(_fmla, sorts, syms, <<>>)
        macro_fmla == smt_to_ivy(macro.full_fmla, sorts, syms, <<>>)
        side == macro_side(f)
        head == macro_fmla.args[1].args[side]
        body == macro_fmla.args[1].args[3 - side]
        params == [i \in 1..Len(head.args) |-> head.args[i].sym]
        _iv_fmla == unfold_fmla(iv_fmla, head.sym.name, params, body)
    IN  formula_to_z3(_iv_fmla)

remaining_macros(fmla) == { t \in subterms(fmla) : is_skolem_macro(t) }

\* the answer of the solver to check() after add(Not(orig_fmla == fmla)):
\* identical formulas are equivalent; a formula from which the definition of
\* a symbol was removed no longer constrains that symbol
solver_check(orig_fmla, fmla) == IF orig_fmla = fmla THEN "unsat" ELSE "sat"

\* lines 636-639: res is the bound method s.check, never a solver answer, so
\* that the assertion res != z3.unsat compares a method with an answer
equivalence_assertion_passes(orig_fmla, fmla) ==
    LET res == "s.check" IN res # "unsat"

\* the tactics ctx-solver-simplify and propagate-values: the constants true
\* and false are propagated and an excluded middle is true
RECURSIVE z3_tactics(_)
z3_tactics(t) ==
    LET sub == [i \in 1..Len(t.args) |-> z3_tactics(t.args[i])]
        keep(drop) == SelectSeq(sub, LAMBDA x : x # drop)
    IN  CASE t.op = "and" ->
                IF \E i \in 1..Len(sub) : sub[i] = ZFalse THEN ZFalse
                ELSE IF keep(ZTrue) = <<>> THEN ZTrue
                ELSE IF Len(keep(ZTrue)) = 1 THEN keep(ZTrue)[1]
                ELSE ZOp("and", keep(ZTrue))
          [] t.op = "or" ->
                IF \E i \in 1..Len(sub) : sub[i] = ZTrue THEN ZTrue
                ELSE IF \E i, j \in 1..Len(sub) : sub[j] = ZOp("not", <<sub[i]>>) THEN ZTrue
                ELSE IF keep(ZFalse) = <<>> THEN ZFalse
                ELSE IF Len(keep(ZFalse)) = 1 THEN keep(ZFalse)[1]
                ELSE ZOp("or", keep(ZFalse))
          [] t.op = "not" ->
                IF sub[1] = ZTrue THEN ZFalse
                ELSE IF sub[1] = ZFalse THEN ZTrue
                ELSE ZOp("not", sub)
          [] t.op \in {"forall", "exists"} ->
                IF sub[1] \in {ZTrue, ZFalse} THEN sub[1] ELSE [t EXCEPT !.args = sub]
          [] OTHER -> [t EXCEPT !.args = sub]

(***************************************************************************)
(* The modules translated.  A module (ivy_module.Module) is a record       *)
(*   [sorts, symbols, axioms, labeled_props, labeled_conjs, initializers,  *)
(*    actions, public_actions]                                             *)
(* sorts and symbols being the ordered mappings of the signature the       *)
(* translation is given (mod.old_sig).  An action is a record [name, mod,  *)
(* tr, pre]: its name and the result of action.update(), the set of the    *)
(* symbols it modifies, its transition formula and its precondition.  An   *)
(* initializer is the name and the formula its action contributes to the   *)
(* verification condition of the sequence of the initializers.             *)
(***************************************************************************)
node == UninterpretedSort(<<"n","o","d","e">>)
EnumValue(i) == IF i % 2 = 1 THEN <<"v", Digit(i)>> ELSE <<"m", ".", "v", Digit(i)>>
color(k) == EnumeratedSort(<<"c","o","l","o","r">>, [i \in 1..k |-> EnumValue(i)])

sym_r == Symbol(<<"r">>, FunctionSort(<<node>>, BooleanSort))
sym_g == Symbol(<<"g">>, FunctionSort(<<node>>, BooleanSort))
sym_f == Symbol(<<"f">>, FunctionSort(<<node>>, node))
sym_c == Symbol(<<"c">>, node)
sym_q == Symbol(<<"q">>, BooleanSort)
\* two names that to_pyv_name maps to the same name
sym_ab == Symbol(<<"a","[","b","]">>, node)
sym_aBb == Symbol(<<"a","_","B","_","b","_","B","_">>, node)
\* two more such names, which no axiom mentions
sym_de == Symbol(<<"d",".","e">>, node)
sym_d_e == Symbol(<<"d","_","e">>, node)
\* existential witnesses: of first order, of second order, and a temporary
\* relation the elaboration defines
sk_x == Symbol(<<"_","_","f","m","l",":","x">>, node)
sk_y == Symbol(<<"_","_","f","m","l",":","y">>, node)
sk_z == Symbol(<<"_","_","l","o","c",":","z">>, node)
sk_i == Symbol(<<"_","_","f","m","l",":","i">>, node)
sk_a == Symbol(<<"_","_","f","m","l",":","a">>, node)
sk_h == Symbol(<<"_","_","h">>, FunctionSort(<<node>>, BooleanSort))
sk_k == Symbol(<<"_","_","k">>, FunctionSort(<<node>>, node))
sk_m == Symbol(<<"_","_","m","_","p">>, FunctionSort(<<node>>, BooleanSort))
sk_n == Symbol(<<"_","_","m","_","q">>, FunctionSort(<<node>>, BooleanSort))

X == Symbol(<<"X">>, node)
vX == LgVar(X)
Y == Symbol(<<"Y">>, node)
Z == Symbol(<<"Z">>, node)
App1(sym, t) == LgApply(sym, <<t>>)

\* axioms and properties
ax_f == LgForAll(<<X>>, LgEq(App1(sym_f, vX), vX))
ax_ab == App1(sym_g, LgConst(sym_ab))
prop_g == LgForAll(<<X>>, LgImplies(App1(sym_g, vX), App1(sym_g, App1(sym_f, vX))))
conj_r == LgForAll(<<X>>, LgImplies(App1(sym_r, vX), LgNot(LgEq(vX, LgConst(sym_c)))))

Action(name, modset, tr, pre) == [name |-> name, mod |-> modset, tr |-> tr, pre |-> pre]

\* c := y, with a local z
act_set ==
    Action(<<"s","e","t",".","c">>, {sym_c},
           LgAnd(<<LgEq(LgConst(new(sym_c)), LgConst(sk_y)),
                   LgNot(LgEq(LgConst(sk_z), LgConst(sk_y)))>>),
           LgEq(LgConst(sym_c), LgConst(sk_y)))
\* r(f(c)) becomes true: f and c occur in the arguments of the post-state r
act_upd ==
    Action(<<"u","p","d">>, {sym_r},
           App1(new(sym_r), App1(sym_f, LgConst(sym_c))),
           _false)
\* two witnesses of second order, neither defined by a macro
act_so ==
    Action(<<"s","o">>, {sym_r},
           LgForAll(<<X>>, LgIff(App1(new(sym_r), vX),
                                 App1(sk_h, App1(sk_k, vX)))),
           _false)
\* a temporary relation with its definition
act_mac ==
    Action(<<"m","a","c">>, {sym_r},
           LgAnd(<<LgForAll(<<X>>, LgIff(App1(sk_m, vX),
                                         LgOr(<<App1(sym_r, vX), LgEq(vX, LgConst(sym_c))>>))),
                   LgForAll(<<X>>, LgIff(App1(new(sym_r), vX), App1(sk_m, vX)))>>),
           _false)
\* q := ~q, written as an equality of Boolean terms
act_beq ==
    Action(<<"b","e","q">>, {sym_q},
           LgEq(LgConst(new(sym_q)), LgNot(LgConst(sym_q))),
           _false)
\* q is assigned an arbitrary value: its post-state occurs only in a tautology
act_hvc ==
    Action(<<"h","v","c">>, {sym_r, sym_q},
           LgAnd(<<LgForAll(<<X>>, LgIff(App1(new(sym_r), vX), LgNot(App1(sym_r, vX)))),
                   LgOr(<<LgConst(new(sym_q)), LgNot(LgConst(new(sym_q)))>>)>>),
           _false)

\* an action other actions call, which is not public
act_int ==
    Action(<<"i","n","t">>, {sym_c},
           LgEq(LgConst(new(sym_c)), App1(sym_f, LgConst(sym_c))),
           _false)

\* d.e := c and d_e is assigned an arbitrary value, which the transition
\* formula does not constrain: the names of the two symbols modified translate
\* to the same name
act_col ==
    Action(<<"c","o","l">>, {sym_de, sym_d_e},
           LgEq(LgConst(new(sym_de)), LgConst(sym_c)),
           _false)
\* r(d.e) and r(d_e) become true: two symbols of the same translated name
\* occur in the arguments of the post-state r
act_dup ==
    Action(<<"d","u","p">>, {sym_r},
           LgAnd(<<App1(new(sym_r), LgConst(sym_de)),
                   App1(new(sym_r), LgConst(sym_d_e))>>),
           _false)

\* a temporary relation whose definition has it on the right-hand side, the
\* left-hand side being an application to the bound variable too
act_rev ==
    Action(<<"r","e","v">>, {sym_r},
           LgAnd(<<LgForAll(<<X>>, LgIff(App1(sym_r, vX), App1(sk_m, vX))),
                   LgForAll(<<X>>, LgIff(App1(new(sym_r), vX), LgNot(App1(sk_m, vX))))>>),
           _false)
\* two temporary relations, the second defined with the first
act_ch ==
    Action(<<"c","h">>, {sym_r},
           LgAnd(<<LgForAll(<<X>>, LgIff(App1(sk_m, vX),
                                         LgOr(<<App1(sym_r, vX), LgEq(vX, LgConst(sym_c))>>))),
                   LgForAll(<<X>>, LgIff(App1(sk_n, vX), LgNot(App1(sk_m, vX)))),
                   LgForAll(<<X>>, LgIff(App1(new(sym_r), vX), App1(sk_n, vX)))>>),
           _false)

\* a quantifier with two binders, a quantifier inside it, and variables of the
\* outer quantifier after the inner one
act_nest ==
    Action(<<"n","e","s","t">>, {sym_r},
           LgForAll(<<X, Y>>,
                    LgImplies(LgAnd(<<LgExists(<<Z>>,
                                               LgAnd(<<App1(sym_r, LgVar(Z)),
                                                       LgEq(LgVar(Z), LgVar(Y)),
                                                       LgNot(LgEq(LgVar(Z), vX))>>)),
                                      LgNot(LgEq(vX, LgVar(Y)))>>),
                              App1(new(sym_r), vX))),
           _false)

\* the actions every module may have
BaseActions == << act_int, act_set, act_upd, act_so, act_mac, act_beq, act_hvc >>
\* the actions of the modules whose signature has the colliding names
CollidingActions == << act_col, act_dup >>

\* r(k(c)) becomes true for a witness k of second order: the witness occurs in
\* the arguments of the post-state r
act_und ==
    Action(<<"u","n","d">>, {sym_r},
           App1(new(sym_r), App1(sk_k, LgConst(sym_c))),
           _false)

\* more actions: temporary relations, nested quantifiers, a witness under a
\* post-state symbol
MoreActions == << act_rev, act_ch, act_nest, act_und >>

ActionCatalogue == BaseActions \o CollidingActions \o MoreActions

init_c == [name |-> <<"i","c">>, fmla |-> LgEq(LgConst(sym_c), LgConst(sk_i))]
init_r == [name |-> <<"i","r">>,
           fmla |-> LgForAll(<<X>>, LgIff(App1(sym_r, vX), App1(sk_h, vX)))]
init_f == [name |-> <<"i","f">>,
           fmla |-> LgNot(LgEq(App1(sym_f, LgConst(sk_x)), LgConst(sk_a)))]

\* the increasing sequence of the members of a set of indices
RECURSIVE Ascending(_)
Ascending(S) ==
    IF S = {} THEN <<>>
    ELSE LET m == CHOOSE x \in S : \A y \in S : x <= y
         IN  <<m>> \o Ascending(S \ {m})

Module(k, inSig, coll, axs, assumed, inits, acts, pub) ==
    [sorts |-> <<node>> \o (IF k > 0 THEN <<color(k)>> ELSE <<>>) \o <<BooleanSort>>,
     symbols |-> <<sym_r, sym_c, sym_f, sym_g, sym_q>>
                 \o (IF coll THEN <<sym_ab, sym_aBb, sym_de, sym_d_e>> ELSE <<>>)
                 \o (IF inSig THEN [i \in 1..k |-> Symbol(EnumValue(i), color(k))]
                     ELSE <<>>),
     axioms |-> axs \o (IF coll THEN <<ax_ab>> ELSE <<>>),
     labeled_props |-> << [label |-> <<"p",".","g">>, formula |-> prop_g,
                           assumed |-> assumed] >>,
     labeled_conjs |-> << [label |-> <<"i","n","v",".","r">>, formula |-> conj_r] >>,
     initializers |-> inits,
     actions |-> acts,
     public_actions |-> pub]

\* the choices that make a module: the number of values of the enumerated
\* sort, whether these values are symbols of the signature too, whether the
\* signature has the two colliding names, the axioms, whether the property is
\* assumed, the initializers and the actions (a set of indices of the catalogue)
Choices ==
    [k : 0..MaxEnum, inSig : BOOLEAN, coll : BOOLEAN, axs : { <<>>, <<ax_f>> },
     assumed : BOOLEAN, inits : { <<init_c>>, <<init_c, init_r, init_f>> },
     S : { T \in SUBSET (1..Len(ActionCatalogue)) : Cardinality(T) <= MaxActions }]

ModuleOf(ch) ==
    Module(ch.k, ch.inSig /\ ch.k > 0, ch.coll, ch.axs, ch.assumed, ch.inits,
           [i \in 1..Len(Ascending(ch.S)) |-> ActionCatalogue[Ascending(ch.S)[i]]],
           { ActionCatalogue[i].name : i \in ch.S } \ {act_int.name})

\* the indices in the catalogue of the actions of a list
IndicesOf(acts) ==
    { i \in 1..Len(ActionCatalogue) : \E j \in 1..Len(acts) : ActionCatalogue[i] = acts[j] }

\* a module with an action beyond the base ones has no enumerated sort, no
\* axiom of its own, no assumed property and one initializer
Plain(c) == c.k = 0 /\ c.axs = <<>> /\ ~c.assumed /\ c.inits = <<init_c>>

\* the modules translated: the values of an enumerated sort are symbols of
\* the signature only if there are some, and the colliding names come with
\* no enumerated sort
Modules ==
    { ModuleOf(ch) : ch \in { c \in Choices :
                                 /\ (c.k = 0 => ~c.inSig)
                                 /\ (c.coll => c.k = 0)
                                 /\ (c.S \cap IndicesOf(CollidingActions) # {} => c.coll)
                                 /\ (c.S \ IndicesOf(BaseActions) # {} => Plain(c)) } }

(***************************************************************************)
(* MypyvyProgram: the lists __init__ creates.                              *)
(***************************************************************************)
MypyvyProgram ==
    [immutable_symbols |-> {},
     actions |-> <<>>, axioms |-> <<>>, constants |-> <<>>, functions |-> <<>>,
     initializers |-> <<>>, invariants |-> <<>>, relations |-> <<>>, sorts |-> <<>>,
     second_order_existentials |-> {},
     intermediate |-> <<>>, havoc_action |-> <<>>]

add_constant_if_not_exists(p, cst) ==
    IF cst.name \notin { p.constants[i].name : i \in 1..Len(p.constants) }
    THEN [p EXCEPT !.constants = Append(@, cst)]
    ELSE p

\* MypyvyProgram.add_sort, for a sort sort_supported holds of
add_sort(p, sort) ==
    IF is_first_order_sort(sort)
    THEN [p EXCEPT !.sorts = Append(@, SortDecl(sort.name))]
    ELSE IF is_enumerated_sort(sort)
    THEN LET pyv_sort == to_pyv_sort(sort)
             consts == [i \in 1..Len(sort.ext) |-> ConstantDecl(sort.ext[i], pyv_sort, FALSE)]
             individuals == [i \in 1..Len(sort.ext) |-> PyvId(sort.ext[i])]
             axiom == AxiomDecl(sort.name \o <<"_","d","i","s","t","i","n","c","t">>,
                                PyvNaryExpr("DISTINCT", individuals))
         IN  [p EXCEPT !.sorts = Append(@, SortDecl(sort.name)),
                       !.constants = @ \o consts,
                       !.axioms = IF Len(individuals) >= 2 THEN Append(@, axiom) ELSE @]
    ELSE p

mutable_symbols(p) ==
    LET all == p.constants \o p.relations \o p.functions
    IN  { all[i].name : i \in { j \in 1..Len(all) : all[j].mutable } }

\* a variant that takes every property, assumed or not
immutable_symbols_of_every_property(m) ==
    UNION { globals_in_fmla(m.axioms[i]) : i \in 1..Len(m.axioms) }
    \cup UNION { globals_in_fmla(m.labeled_props[i].formula) : i \in 1..Len(m.labeled_props) }

\* the immutable symbols (lines 721-725)
immutable_symbols_of(m) ==
    UNION { globals_in_fmla(m.axioms[i]) : i \in 1..Len(m.axioms) }
    \cup UNION { globals_in_fmla(m.labeled_props[i].formula) :
                 i \in { j \in 1..Len(m.labeled_props) : m.labeled_props[j].assumed } }

RECURSIVE add_sorts(_, _)
add_sorts(p, sorts) ==
    IF sorts = <<>> THEN p ELSE add_sorts(add_sort(p, Head(sorts)), Tail(sorts))

\* one pass of the loop over sig.symbols (lines 734-747)
add_symbol(p, sym) ==
    LET kind == sort_type(sym.sort)
        is_mutable == sym.name \notin p.immutable_symbols
        pyv_sym_decl == translate_symbol_decl(sym, is_mutable)
    IN  IF kind = "individual" THEN add_constant_if_not_exists(p, pyv_sym_decl)
        ELSE IF kind = "relation" THEN [p EXCEPT !.relations = Append(@, pyv_sym_decl)]
        ELSE [p EXCEPT !.functions = Append(@, pyv_sym_decl)]

RECURSIVE add_symbols(_, _)
add_symbols(p, syms) ==
    IF syms = <<>> THEN p ELSE add_symbols(add_symbol(p, Head(syms)), Tail(syms))

translate_ivy_sig(p, m) ==
    add_symbols(add_sorts([p EXCEPT !.immutable_symbols = @ \cup immutable_symbols_of(m)],
                          m.sorts),
                m.symbols)

add_axioms_and_props(p, m) ==
    LET axs == [i \in 1..Len(m.axioms) |->
                   AxiomDecl(<<>>, translate_logic_fmla(m.axioms[i], FALSE))]
        assumed == SelectSeq(m.labeled_props, LAMBDA prop : prop.assumed)
        props == [i \in 1..Len(assumed) |->
                     AxiomDecl(to_pyv_name(assumed[i].label),
                               translate_logic_fmla(assumed[i].formula, FALSE))]
    IN  [p EXCEPT !.axioms = @ \o axs \o props]

add_conjectures(p, m) ==
    [p EXCEPT !.invariants = @ \o
        [i \in 1..Len(m.labeled_conjs) |->
            InvariantDecl(to_pyv_name(m.labeled_conjs[i].label),
                          translate_logic_fmla(m.labeled_conjs[i].formula, FALSE))]]

\* it.make_vc(ia.Sequence(*inits)).to_formula(): the conjunction of what the
\* initializers contribute, in their order, and of the conjunct Not(And())
make_vc(inits) ==
    LgAnd([i \in 1..Len(inits) |-> inits[i].fmla] \o <<LgNot(LgAnd(<<>>))>>)

\* a variant that takes every action of the module
public_actions_unfiltered(m) == m.actions

\* list(filter(lambda x: x[0] in mod.public_actions, mod.actions.items()))
public_actions(m) == SelectSeq(m.actions, LAMBDA a : a.name \in m.public_actions)

\* sorted(list(S)) for a set of symbols
sorted_symbols(S) ==
    LET names == sorted({ x.name : x \in S })
    IN  [i \in 1..Len(names) |-> SymNamed(S, names[i])]

is_first_order_ex(x) ==
    is_first_order_sort(x.sort) \/ is_enumerated_sort(x.sort) \/ is_boolean_sort(x.sort)

(***************************************************************************)
(* Translation.translate_action, after the simplification: lines 408-478. *)
(* fmla is the simplified formula, noop_order the order in which the set   *)
(* ivy_not_actually_modified is iterated.  The result is the error raised  *)
(* or the declaration and the witnesses of second order.                   *)
(***************************************************************************)
\* a variant that does not take the symbols actually modified out
ivy_not_actually_modified_keeping_modified(pyv_mutable_symbols, fmla) ==
    LET pyv_fmla == translate_logic_fmla(fmla, TRUE)
        pyv_supposedly_modified == pyv_globals_under_new(pyv_mutable_symbols, pyv_fmla, FALSE)
    IN  { x \in symbols(fmla) : to_pyv_name(x.name) \in pyv_supposedly_modified }

ivy_not_actually_modified(pyv_mutable_symbols, fmla) ==
    LET pyv_fmla == translate_logic_fmla(fmla, TRUE)
        pyv_supposedly_modified == pyv_globals_under_new(pyv_mutable_symbols, pyv_fmla, FALSE)
        actually_modified == { new_of(x) : x \in { y \in symbols(fmla) : is_new(y) } }
        simpl_modified == { x.name : x \in actually_modified }
        pyv_actually_modified == { to_pyv_name(n) : n \in simpl_modified }
        pyv_not_actually_modified == pyv_supposedly_modified \ pyv_actually_modified
    IN  { x \in symbols(fmla) : to_pyv_name(x.name) \in pyv_not_actually_modified }

\* a variant that lists the parameters in the decreasing order of the names
action_params_decreasing(first_order_exs) ==
    Reverse(translate_binders(sorted_symbols(first_order_exs)))

action_params(first_order_exs) == translate_binders(sorted_symbols(first_order_exs))

action_mods(pyv_supposedly_modified) == sorted(pyv_supposedly_modified)

translate_action_emit(pyv_mutable_symbols, action, fmla, noop_order) ==
    LET exs == { x \in symbols(fmla) : is_skolem(x) }
        first_order_exs == { x \in exs : is_first_order_ex(x) }
        second_order_exs == { x \in exs : is_function_sort(x.sort) }
        pyv_name == to_pyv_name(action.name)
        pyv_params == action_params(first_order_exs)
        pyv_fmla == translate_logic_fmla(fmla, TRUE)
        pyv_supposedly_modified == pyv_globals_under_new(pyv_mutable_symbols, pyv_fmla, FALSE)
        mods == action_mods(pyv_supposedly_modified)
        actually_modified == { new_of(x) : x \in { y \in symbols(fmla) : is_new(y) } }
        orig_modified == { x.name : x \in action.mod }
        simpl_modified == { x.name : x \in actually_modified }
        noop_clauses == [i \in 1..Len(noop_order) |-> pyv_unchanged_symbol(noop_order[i])]
        body == IF noop_order # <<>>
                THEN PyvAnd(<<pyv_fmla, PyvAnd(noop_clauses)>>)
                ELSE pyv_fmla
    IN  IF exs # first_order_exs \cup second_order_exs
        THEN [err |-> "WitnessSortError", decl |-> InitDecl(PyvTrueExpr), exs |-> {}]
        ELSE IF orig_modified # simpl_modified
        THEN [err |-> "ModifiesMismatchError", decl |-> InitDecl(PyvTrueExpr), exs |-> {}]
        ELSE [err |-> "", decl |-> DefinitionDecl(pyv_name, pyv_params, mods, body),
              exs |-> second_order_exs]

(***************************************************************************)
(* Translation.translate_initializer: the assertion of line 353 and the    *)
(* conjunction of line 354.                                                *)
(***************************************************************************)
last_conjunct_is_must_not_fail(upd) ==
    /\ upd.op = "And"
    /\ upd.args # <<>>
    /\ upd.args[Len(upd.args)] = LgNot(LgAnd(<<>>))

without_last_conjunct(upd) == LgAnd(SubSeq(upd.args, 1, Len(upd.args) - 1))

\* a variant that quantifies over every witness, of second order too
translate_initializer_emit_binding_every_witness(upd) ==
    LET exs == { x \in symbols(upd) : is_skolem(x) }
        second_order_exs == { x \in exs : is_function_sort(x.sort) }
        fmla == translate_logic_fmla(upd, FALSE)
        ex_fmla == PyvExists(translate_binders(sorted_symbols(exs)), fmla)
    IN  [err |-> "", decl |-> InitDecl(ex_fmla), exs |-> second_order_exs]

(***************************************************************************)
(* Translation.translate_initializer, after the simplification: lines      *)
(* 362-381.                                                                *)
(***************************************************************************)
translate_initializer_emit(upd) ==
    LET exs == { x \in symbols(upd) : is_skolem(x) }
        first_order_exs == { x \in exs : is_first_order_ex(x) }
        second_order_exs == { x \in exs : is_function_sort(x.sort) }
        ex_quant == sorted_symbols(first_order_exs)
        fmla == translate_logic_fmla(upd, FALSE)
        ex_fmla == PyvExists(translate_binders(ex_quant), fmla)
    IN  IF exs # first_order_exs \cup second_order_exs
        THEN [err |-> "WitnessSortError", decl |-> InitDecl(PyvTrueExpr), exs |-> {}]
        ELSE [err |-> "", decl |-> InitDecl(ex_fmla), exs |-> second_order_exs]

(***************************************************************************)
(* MypyvyProgram.add_intermediate_rels_fn_and_havoc_action; order is the   *)
(* order in which the set second_order_existentials is iterated.           *)
(***************************************************************************)
havoc_action_decl(order) ==
    LET modified == sorted({ to_pyv_name(order[i].name) : i \in 1..Len(order) })
        havoc_clauses == [i \in 1..Len(order) |-> pyv_havoc_symbol(order[i])]
    IN  DefinitionDecl(<<"_","h","a","v","o","c","_","i","n","t","e","r","m","e","d",
                         "i","a","r","i","e","s">>,
                       <<>>, modified, PyvAnd(havoc_clauses))

\* a variant that declares the havoc action whether there are witnesses or not
add_intermediate_and_havoc_action_always(p, order) ==
    [p EXCEPT !.intermediate = @ \o [i \in 1..Len(order) |->
                                        translate_symbol_decl(order[i], TRUE)],
              !.havoc_action = Append(@, havoc_action_decl(order))]

add_intermediate_rels_fn_and_havoc_action(p, order) ==
    [p EXCEPT !.intermediate = @ \o [i \in 1..Len(order) |->
                                        translate_symbol_decl(order[i], TRUE)],
              !.havoc_action = IF Len(order) > 0
                               THEN Append(@, havoc_action_decl(order)) ELSE @]

\* a variant that lists the declarations in the order the lists were filled
to_program_in_order_filled(p) ==
    p.sorts \o p.constants \o p.relations \o p.functions \o p.axioms
    \o p.invariants \o p.initializers \o p.actions \o p.intermediate \o p.havoc_action

(***************************************************************************)
(* MypyvyProgram.to_program                                                *)
(***************************************************************************)
\* the havoc action placed before the intermediate declarations
to_program_havoc_before_intermediate(p) ==
    p.sorts \o p.constants \o p.relations \o p.functions \o p.axioms
    \o p.havoc_action \o p.intermediate \o p.initializers \o p.actions \o p.invariants

to_program(p) ==
    p.sorts \o p.constants \o p.relations \o p.functions \o p.axioms
    \o p.intermediate \o p.havoc_action \o p.initializers \o p.actions \o p.invariants

(***************************************************************************)
(* The run of check_isolate.                                               *)
(*   mod    the module translated (im.module)                               *)
(*   pc     the step of check_isolate the run is at, "done" after the      *)
(*          output is written and "aborted" after an exception             *)
(*   prog   the MypyvyProgram                                              *)
(*   ctx    the locals of the translation of the initializer or of an      *)
(*          action under way, and those of add_public_actions; upd is the  *)
(*          simplified formula translate_initializer returned with         *)
(*   units  for every action declared, the locals translate_action         *)
(*          returned with                                                  *)
(*   log    the calls made and the returns of the translations so far      *)
(*   out    the declarations written to the output file                    *)
(*   err    the exception the run ended with                               *)
(***************************************************************************)
VARIABLES mod, pc, prog, ctx, units, log, out, err

vars == << mod, pc, prog, ctx, units, log, out, err >>

Idle == [stage |-> "idle", idx |-> 0, unit |-> <<>>, fmla |-> _true,
         z3 |-> ZTrue, equiv |-> "", pyv_mutable_symbols |-> {}, upd |-> _true]

Event(ev, unit) == [ev |-> ev, unit |-> unit, exs |-> {}]
\* the return of translate_initializer or translate_action with the
\* witnesses of second order exs
Returned(unit, exs) == [ev |-> "declared", unit |-> unit, exs |-> exs]

Init ==
    /\ mod \in Modules
    /\ pc = "translate_ivy_sig"
    /\ prog = MypyvyProgram
    /\ ctx = Idle
    /\ units = <<>>
    /\ log = <<>>
    /\ out = <<>>
    /\ err = ""

\* a variant that writes the declarations made so far when the run is aborted
Raise_writing_partial_output(e) ==
    /\ pc' = "aborted"
    /\ err' = e
    /\ out' = to_program(prog)
    /\ UNCHANGED << mod, prog, units >>

\* an exception ends the run: nothing catches it
Raise(e) ==
    /\ pc' = "aborted"
    /\ err' = e
    /\ UNCHANGED << mod, prog, units, out >>

\* check_isolate, line 835
TranslateIvySig ==
    /\ pc = "translate_ivy_sig"
    /\ IF \A i \in 1..Len(mod.sorts) : mod.sorts[i].k \in {"uninterpreted", "enumerated", "boolean"}
       THEN /\ prog' = translate_ivy_sig(prog, mod)
            /\ pc' = "add_axioms_and_props"
            /\ UNCHANGED << mod, ctx, units, log, out, err >>
       ELSE Raise("NotImplementedError") /\ UNCHANGED << ctx, log >>

\* check_isolate, line 841
AddAxiomsAndProps ==
    /\ pc = "add_axioms_and_props"
    /\ prog' = add_axioms_and_props(prog, mod)
    /\ pc' = "add_conjectures"
    /\ UNCHANGED << mod, ctx, units, log, out, err >>

\* check_isolate, line 842
AddConjectures ==
    /\ pc = "add_conjectures"
    /\ prog' = add_conjectures(prog, mod)
    /\ pc' = "add_initializers"
    /\ UNCHANGED << mod, ctx, units, log, out, err >>

\* add_initializers and translate_initializer up to the call of
\* simplify_via_smt (lines 780-361)
AddInitializers ==
    /\ pc = "add_initializers"
    /\ ctx.stage = "idle"
    /\ LET vc == make_vc(mod.initializers)
           upd == without_last_conjunct(vc)
       IN  IF last_conjunct_is_must_not_fail(vc)
           THEN /\ ctx' = [ctx EXCEPT !.stage = "simplify", !.unit = <<"i","n","i","t">>,
                                      !.fmla = upd, !.z3 = formula_to_z3(upd),
                                      !.equiv = ""]
                /\ log' = Append(log, Event("simplify_via_smt", <<"i","n","i","t">>))
                /\ UNCHANGED << mod, pc, prog, units, out, err >>
           ELSE Raise("AssertionError") /\ UNCHANGED << ctx, log >>

\* simplify_via_smt: one pass of the loop that finds a macro (lines 615-633)
SimplifyReduce ==
    /\ ctx.stage = "simplify"
    /\ \E f \in remaining_macros(ctx.z3) :
          ctx' = [ctx EXCEPT !.z3 = reduce_with_macro(ctx.z3, f, Range(mod.sorts),
                                                      symbols(ctx.fmla))]
    /\ log' = Append(log, Event("reduce", ctx.unit))
    /\ UNCHANGED << mod, pc, prog, units, out, err >>

\* simplify_via_smt: the loop ends, the equivalence is asserted and the
\* tactics are applied (lines 621-645)
SimplifyReturn ==
    /\ ctx.stage = "simplify"
    /\ remaining_macros(ctx.z3) = {}
    /\ IF equivalence_assertion_passes(formula_to_z3(ctx.fmla), ctx.z3)
       THEN /\ ctx' = [ctx EXCEPT !.stage = "emit",
                                  !.equiv = solver_check(formula_to_z3(ctx.fmla), ctx.z3),
                                  !.z3 = z3_tactics(ctx.z3)]
            /\ log' = Append(log, Event("simplified", ctx.unit))
            /\ UNCHANGED << mod, pc, prog, units, out, err >>
       ELSE Raise("SimplificationUnsoundError") /\ UNCHANGED << ctx, log >>

\* translate_initializer after simplify_via_smt, and the end of
\* add_initializers (lines 362-381, 783-784)
InitializerDeclared ==
    /\ pc = "add_initializers"
    /\ ctx.stage = "emit"
    /\ LET upd == smt_to_ivy(ctx.z3, Range(mod.sorts), symbols(ctx.fmla), <<>>)
           res == translate_initializer_emit(upd)
       IN  IF res.err = ""
           THEN /\ prog' = [prog EXCEPT !.second_order_existentials = @ \cup res.exs,
                                        !.initializers = Append(@, res.decl)]
                /\ pc' = "add_public_actions"
                /\ ctx' = [Idle EXCEPT !.upd = upd]
                /\ log' = Append(log, Returned(ctx.unit, res.exs))
                /\ UNCHANGED << mod, units, out, err >>
           ELSE Raise(res.err) /\ UNCHANGED << ctx, log >>

\* add_public_actions before its loop (lines 788-789)
AddPublicActions ==
    /\ pc = "add_public_actions"
    /\ ctx.stage = "idle"
    /\ ctx.idx = 0
    /\ ctx' = [ctx EXCEPT !.idx = 1, !.pyv_mutable_symbols = mutable_symbols(prog)]
    /\ UNCHANGED << mod, pc, prog, units, log, out, err >>

\* a variant that asserts nothing
round_trip_assertion_skipped(fmla, _fmla) == TRUE

\* the assertion of line 404
round_trip_assertion_passes(fmla, _fmla) == fmla = _fmla

\* translate_action up to the call of simplify_via_smt (lines 392-407)
TranslateAction ==
    /\ pc = "add_public_actions"
    /\ ctx.stage = "idle"
    /\ ctx.idx \in 1..Len(public_actions(mod))
    /\ LET action == public_actions(mod)[ctx.idx]
           fmla == LgAnd(<<LgNot(action.pre), action.tr>>)
           syms == symbols(fmla)
           z3_fmla == formula_to_z3(fmla)
           _fmla == smt_to_ivy(z3_fmla, Range(mod.sorts), syms, <<>>)
       IN  IF round_trip_assertion_passes(fmla, _fmla)
           THEN /\ ctx' = [ctx EXCEPT !.stage = "simplify", !.unit = action.name,
                                      !.fmla = fmla, !.z3 = z3_fmla, !.equiv = ""]
                /\ log' = log \o << Event("round_trip", action.name),
                                    Event("simplify_via_smt", action.name) >>
                /\ UNCHANGED << mod, pc, prog, units, out, err >>
           ELSE /\ Raise("RoundTripError")
                /\ log' = Append(log, Event("round_trip", action.name))
                /\ UNCHANGED ctx

\* translate_action after simplify_via_smt, and the end of the pass of the
\* loop of add_public_actions (lines 408-478, 792-793)
ActionDeclared ==
    /\ pc = "add_public_actions"
    /\ ctx.stage = "emit"
    /\ LET action == public_actions(mod)[ctx.idx]
           fmla == smt_to_ivy(ctx.z3, Range(mod.sorts), symbols(ctx.fmla), <<>>)
       IN  \E noop_order \in Orders(ivy_not_actually_modified(ctx.pyv_mutable_symbols, fmla)) :
              LET res == translate_action_emit(ctx.pyv_mutable_symbols, action, fmla, noop_order)
              IN  IF res.err = ""
                  THEN /\ prog' = [prog EXCEPT !.second_order_existentials = @ \cup res.exs,
                                               !.actions = Append(@, res.decl)]
                       /\ units' = Append(units, [idx |-> ctx.idx, fmla |-> fmla,
                                                  noop |-> noop_order, exs |-> res.exs,
                                                  equiv |-> ctx.equiv,
                                                  pyv_mutable_symbols |-> ctx.pyv_mutable_symbols])
                       /\ ctx' = [ctx EXCEPT !.stage = "idle", !.idx = @ + 1]
                       /\ log' = Append(log, Returned(action.name, res.exs))
                       /\ UNCHANGED << mod, pc, out, err >>
                  ELSE Raise(res.err) /\ UNCHANGED << ctx, log >>

\* check_isolate, line 852, once the loop of add_public_actions has ended
AddIntermediate ==
    /\ pc = "add_public_actions"
    /\ ctx.stage = "idle"
    /\ ctx.idx > Len(public_actions(mod))
    /\ \E order \in Orders(prog.second_order_existentials) :
          prog' = add_intermediate_rels_fn_and_havoc_action(prog, order)
    /\ pc' = "to_program"
    /\ UNCHANGED << mod, ctx, units, log, out, err >>

\* check_isolate, lines 855-862
WriteProgram ==
    /\ pc = "to_program"
    /\ out' = to_program(prog)
    /\ log' = Append(log, Event("write", <<>>))
    /\ pc' = "done"
    /\ UNCHANGED << mod, prog, ctx, units, err >>

Next ==
    \/ TranslateIvySig
    \/ AddAxiomsAndProps
    \/ AddConjectures
    \/ AddInitializers
    \/ SimplifyReduce
    \/ SimplifyReturn
    \/ InitializerDeclared
    \/ AddPublicActions
    \/ TranslateAction
    \/ ActionDeclared
    \/ AddIntermediate
    \/ WriteProgram

Spec == Init /\ [][Next]_vars

(***************************************************************************)
(* The properties checked.                                                 *)
(***************************************************************************)
\* the action of the module the i-th declared action translates
SourceAction(i) == public_actions(mod)[units[i].idx]

PyvNames(S) == { to_pyv_name(x.name) : x \in S }

C2_ReturnsOnlyWhenEquivalent ==
    /\ ctx.stage = "emit" => ctx.equiv = "unsat"
    /\ \A i \in 1..Len(units) : units[i].equiv = "unsat"

\* the formula And(Not(pre), tr) of an action and its round trip
ActionFormula(a) == LgAnd(<<LgNot(a.pre), a.tr>>)
RoundTrip(fmla) == smt_to_ivy(formula_to_z3(fmla), Range(mod.sorts), symbols(fmla), <<>>)

EventsOf(name) == { j \in 1..Len(log) : log[j].unit = name }

\* C3: the round trip of the formula of an action is the first call of its
\* translation, the simplification follows it at once and only when the round
\* trip gave the formula back; when it did not the run is aborted, the round
\* trip is the only call made for the action and no declaration of the action
\* is in the program
C3_RoundTripFirst ==
    /\ \A j \in 1..Len(log) :
          log[j].unit \notin {<<"i","n","i","t">>, <<>>} =>
              /\ log[CHOOSE k \in EventsOf(log[j].unit) :
                          \A l \in EventsOf(log[j].unit) : k <= l].ev = "round_trip"
              /\ log[j].ev = "simplify_via_smt" =>
                     j > 1 /\ log[j - 1] = Event("round_trip", log[j].unit)
    /\ (pc = "add_public_actions" /\ ctx.stage # "idle") =>
          /\ ctx.fmla = ActionFormula(public_actions(mod)[ctx.idx])
          /\ RoundTrip(ctx.fmla) = ctx.fmla
    /\ \A i \in 1..Len(units) :
          RoundTrip(ActionFormula(SourceAction(i))) = ActionFormula(SourceAction(i))
    /\ err = "RoundTripError" =>
          LET a == public_actions(mod)[ctx.idx]
          IN  /\ pc = "aborted"
              /\ RoundTrip(ActionFormula(a)) # ActionFormula(a)
              /\ { log[j].ev : j \in EventsOf(a.name) } = {"round_trip"}
              /\ log[Len(log)] = Event("round_trip", a.name)
              /\ Len(prog.actions) = ctx.idx - 1
              /\ \A i \in 1..Len(prog.actions) : prog.actions[i].name # to_pyv_name(a.name)
              /\ out = <<>>

\* the run was aborted by the round trip of an action that follows an action
\* already declared
C3_Witness ==
    /\ err = "RoundTripError"
    /\ Len(prog.actions) = 1
    /\ ctx.idx = 2

\* the place of a declaration of the output in the order of C4
DeclRank(d) ==
    CASE d.cls = "SortDecl" -> 1
      [] d.cls = "ConstantDecl" -> 2
      [] d.cls \in {"RelationDecl", "FunctionDecl"}
           /\ d.name \in PyvNames(prog.second_order_existentials) -> 6
      [] d.cls = "RelationDecl" -> 3
      [] d.cls = "FunctionDecl" -> 4
      [] d.cls = "AxiomDecl" -> 5
      [] d.cls = "DefinitionDecl"
           /\ d.name = <<"_","h","a","v","o","c","_","i","n","t","e","r","m","e","d",
                         "i","a","r","i","e","s">> -> 7
      [] d.cls = "InitDecl" -> 8
      [] d.cls = "DefinitionDecl" -> 9
      [] d.cls = "InvariantDecl" -> 10

\* C4: the declarations written are those of the lists of the program, in
\* the order sorts, constants, relations, functions, axioms, intermediate
\* declarations, havoc action, initializer, actions, invariants
C4_DeclarationOrder ==
    pc = "done" =>
        /\ \A i, j \in 1..Len(out) : i < j => DeclRank(out[i]) <= DeclRank(out[j])
        /\ Len(out) = Len(prog.sorts) + Len(prog.constants) + Len(prog.relations)
                       + Len(prog.functions) + Len(prog.axioms) + Len(prog.intermediate)
                       + Len(prog.havoc_action) + Len(prog.initializers)
                       + Len(prog.actions) + Len(prog.invariants)
        /\ \A r \in 1..10 :
              SelectSeq(out, LAMBDA d : DeclRank(d) = r)
                = CASE r = 1 -> prog.sorts
                    [] r = 2 -> prog.constants
                    [] r = 3 -> prog.relations
                    [] r = 4 -> prog.functions
                    [] r = 5 -> prog.axioms
                    [] r = 6 -> prog.intermediate
                    [] r = 7 -> prog.havoc_action
                    [] r = 8 -> prog.initializers
                    [] r = 9 -> prog.actions
                    [] r = 10 -> prog.invariants

\* an output with a declaration of every one of the ten kinds
C4_Witness ==
    /\ pc = "done"
    /\ { DeclRank(out[i]) : i \in 1..Len(out) } = 1..10

\* C5: what is written does not depend on the order in which a set is
\* iterated: the unchanged clauses of an action, the intermediate
\* declarations and the conjuncts of the havoc action are those any order of
\* iteration gives
C5_IndependentOfIterationOrder ==
    /\ \A i \in 1..Len(units) :
          \A o \in Orders(Range(units[i].noop)) :
              translate_action_emit(units[i].pyv_mutable_symbols, SourceAction(i),
                                    units[i].fmla, o).decl = prog.actions[i]
    /\ pc \in {"to_program", "done"} =>
          \A o \in Orders(prog.second_order_existentials) :
              /\ prog.intermediate = [i \in 1..Len(o) |-> translate_symbol_decl(o[i], TRUE)]
              /\ prog.havoc_action = IF o = <<>> THEN <<>> ELSE <<havoc_action_decl(o)>>

\* two symbols of the signature with different names and one translated name
Collision ==
    \E i, j \in 1..Len(mod.symbols) :
        /\ mod.symbols[i].name # mod.symbols[j].name
        /\ to_pyv_name(mod.symbols[i].name) = to_pyv_name(mod.symbols[j].name)

\* C6: '.', '[', ']' and ':' are replaced by their substitutes, and a
\* module two names of which translate to one name is not translated to the
\* end: no output is written for it
C6_CollisionDetected ==
    /\ to_pyv_name(<<"a",".","b","[","c","]",":","d">>)
         = <<"a">> \o DOT_REPLACEMENT \o <<"b">> \o BRACE_REPLACEMENT \o <<"c">>
           \o BRACE_REPLACEMENT \o COLON_REPLACEMENT \o <<"d">>
    /\ Collision => (pc # "done" /\ out = <<>>)

\* the sorts and the symbols of the signature have been translated
SigTranslated == pc # "translate_ivy_sig"

Count(seq, P(_)) == Cardinality({ i \in 1..Len(seq) : P(seq[i]) })

\* the names a value of an enumerated sort is declared under
ValueNames(sort) == Range(sort.ext) \cup { to_pyv_name(v) : v \in Range(sort.ext) }

\* C7: an enumerated sort of k values has one sort declaration, k constant
\* declarations for its values, all immutable, and one axiom that its k
\* values are distinct if k >= 2 and none otherwise, whether the values are
\* symbols of the signature or not
C7_EnumDeclarations ==
    SigTranslated =>
        \A s \in { x \in Range(mod.sorts) : is_enumerated_sort(x) } :
            /\ Count(prog.sorts, LAMBDA d : d.name = s.name) = 1
            /\ Count(prog.constants, LAMBDA d : d.name \in ValueNames(s)) = Len(s.ext)
            /\ \A i \in 1..Len(prog.constants) :
                  prog.constants[i].name \in ValueNames(s) => ~prog.constants[i].mutable
            /\ Count(prog.axioms, LAMBDA d : d.body.op = "DISTINCT"
                                             /\ Len(d.body.args) = Len(s.ext))
                 = IF Len(s.ext) >= 2 THEN 1 ELSE 0
            /\ Count(prog.axioms, LAMBDA d : d.body.op = "DISTINCT") <= 1

\* the names that occur in an axiom or in a property that is assumed
NamesAssumed ==
    { x.name : x \in UNION ({ symbols(mod.axioms[i]) : i \in 1..Len(mod.axioms) }
                            \cup { symbols(mod.labeled_props[i].formula) :
                                     i \in { j \in 1..Len(mod.labeled_props) :
                                               mod.labeled_props[j].assumed } }) }

SigOfKind(kind) == SelectSeq(mod.symbols, LAMBDA x : sort_type(x.sort) = kind)

\* the declarations of the program a symbol of the signature is referred to by
DeclsOf(sym) ==
    LET decls == CASE sort_type(sym.sort) = "individual" -> prog.constants
                   [] sort_type(sym.sort) = "relation" -> prog.relations
                   [] sort_type(sym.sort) = "function" -> prog.functions
    IN  { decls[i] : i \in { j \in 1..Len(decls) : decls[j].name = to_pyv_name(sym.name) } }

\* C8 as stated: the declaration of every symbol of the signature is
\* immutable if and only if the name of the symbol occurs in an axiom or in a
\* property that is assumed
C8_ImmutableIffAssumed ==
    SigTranslated =>
        \A sym \in Range(mod.symbols) :
            /\ DeclsOf(sym) # {}
            /\ \A d \in DeclsOf(sym) : ~d.mutable <=> sym.name \in NamesAssumed

\* the names add_sort declares the values of the enumerated sorts under
EnumConstants ==
    UNION { Range(x.ext) : x \in { y \in Range(mod.sorts) : is_enumerated_sort(y) } }

\* the first individual of the signature with the translated name n
FirstIndividual(n) ==
    LET inds == SigOfKind("individual")
        at == { i \in 1..Len(inds) : to_pyv_name(inds[i].name) = n }
    IN  inds[CHOOSE i \in at : \A j \in at : i <= j]

\* C8, amended: the immutable names are those that occur in an axiom or in a
\* property that is assumed; every relation and every function of the
\* signature has its declaration, immutable if and only if its name is one of
\* them; an individual is declared under its translated name once, by the
\* declaration of the enum value of that name, immutable, if there is one,
\* and otherwise by that of the first individual of the signature with this
\* translated name, immutable if and only if the name of that one is one
\* of them
C8_ImmutableUnlessDeclaredBefore ==
    SigTranslated =>
        LET assumed == NamesAssumed
            enums == EnumConstants
        IN  /\ prog.immutable_symbols = assumed
            /\ \A kind \in {"relation", "function"} :
                  LET sig == SigOfKind(kind)
                      decls == IF kind = "relation" THEN prog.relations ELSE prog.functions
                  IN  /\ Len(decls) = Len(sig)
                      /\ \A i \in 1..Len(sig) :
                            /\ decls[i].name = to_pyv_name(sig[i].name)
                            /\ ~decls[i].mutable <=> sig[i].name \in assumed
            /\ \A sym \in Range(SigOfKind("individual")) :
                  LET n == to_pyv_name(sym.name)
                  IN  /\ Cardinality(DeclsOf(sym)) = 1
                      /\ Count(prog.constants, LAMBDA d : d.name = n) = 1
                      /\ \A d \in DeclsOf(sym) :
                            ~d.mutable <=> IF n \in enums THEN TRUE
                                           ELSE FirstIndividual(n).name \in assumed

\* the signature is translated of a module whose property is not assumed,
\* with a function in an axiom and an enum value among its symbols
C8_Witness ==
    /\ SigTranslated
    /\ ~mod.labeled_props[1].assumed
    /\ sym_f.name \in NamesAssumed
    /\ sym_g.name \notin NamesAssumed
    /\ \E sym \in Range(mod.symbols) : sym.name \in EnumConstants
    /\ \E i \in 1..Len(prog.relations) : prog.relations[i].mutable
    /\ \E i \in 1..Len(prog.functions) : ~prog.functions[i].mutable

\* the witnesses of the simplified formula of the i-th action declared
Witnesses(i) == { x \in symbols(units[i].fmla) : is_skolem(x) }
FirstOrder(i) ==
    { x \in Witnesses(i) : x.sort.k \in {"uninterpreted", "enumerated", "boolean"} }
SecondOrder(i) == { x \in Witnesses(i) : x.sort.k = "function" }

\* C9: every witness of the simplified formula of an action declared is of
\* first order or of second order; the parameters of the declaration are the
\* witnesses of first order, in the increasing order of their names, each
\* with its translated name and sort; no witness of second order is a
\* parameter, and those are what the translation of the action returned
C9_WitnessesSplit ==
    \A i \in 1..Len(units) :
        LET params == prog.actions[i].params
        IN  /\ Witnesses(i) = FirstOrder(i) \cup SecondOrder(i)
            /\ FirstOrder(i) \cap SecondOrder(i) = {}
            /\ \E w \in Orders(FirstOrder(i)) :
                  /\ \A a, b \in 1..Len(w) : a < b => StrLess(w[a].name, w[b].name)
                  /\ params = [a \in 1..Len(w) |->
                                  PyvSortedVar(to_pyv_name(w[a].name), to_pyv_sort(w[a].sort))]
            /\ \A a \in 1..Len(params) : params[a].name \notin PyvNames(SecondOrder(i))
            /\ units[i].exs = SecondOrder(i)
            /\ \E j \in 1..Len(log) :
                  log[j] = Returned(SourceAction(i).name, SecondOrder(i))

\* an action with two parameters and an action with two witnesses of second
\* order were declared
C9_Witness ==
    /\ \E i \in 1..Len(units) : Len(prog.actions[i].params) = 2
    /\ \E i \in 1..Len(units) :
          Cardinality(SecondOrder(i)) = 2 /\ prog.actions[i].params = <<>>

\* the witnesses of second order the translations returned
Reported == UNION { log[j].exs : j \in 1..Len(log) }

\* the conjuncts of the body of the havoc action of n witnesses
HavocConjuncts(body, n) ==
    IF n = 1 THEN <<body>>
    ELSE IF body.cls = "NaryExpr" /\ body.op = "AND" THEN body.args
    ELSE <<>>

\* c states that for all arguments the value of w in the post-state is some
\* element of the range of w
HavocClauseOf(c, w) ==
    /\ c.cls = "QuantifierExpr" /\ c.op = "FORALL"
    /\ Len(c.vars) = Len(w.sort.dom)
    /\ \A a \in 1..Len(c.vars) : c.vars[a].sort = to_pyv_sort(w.sort.dom[a])
    /\ \A a, b \in 1..Len(c.vars) : a # b => c.vars[a].name # c.vars[b].name
    /\ LET ex == c.args[1]
       IN  /\ ex.cls = "QuantifierExpr" /\ ex.op = "EXISTS"
           /\ Len(ex.vars) = 1
           /\ ex.vars[1].sort = to_pyv_sort(w.sort.rng[1])
           /\ \A a \in 1..Len(c.vars) : c.vars[a].name # ex.vars[1].name
           /\ ex.args[1]
                = PyvEq(PyvNew(PyvApply(to_pyv_name(w.name),
                                        [a \in 1..Len(c.vars) |-> PyvId(c.vars[a].name)])),
                        PyvId(ex.vars[1].name))

\* C10: once the initializer and the public actions are translated and the
\* intermediate declarations added, the program has one mutable relation or
\* function declaration for each witness of second order the translations
\* returned; it has the action _havoc_intermediaries if and only if there is
\* such a witness, and this action has no parameter, modifies exactly the
\* witnesses, and has in its body one conjunct for each witness, which states
\* that for all arguments its value in the post-state is some element of its
\* range
C10_IntermediatesAndHavoc ==
    pc \in {"to_program", "done"} =>
        /\ prog.second_order_existentials = Reported
        /\ Len(prog.intermediate) = Cardinality(Reported)
        /\ \A w \in Reported :
              /\ Count(prog.intermediate, LAMBDA d : d.name = to_pyv_name(w.name)) = 1
              /\ \A a \in 1..Len(prog.intermediate) :
                    prog.intermediate[a].name = to_pyv_name(w.name) =>
                        /\ prog.intermediate[a].mutable
                        /\ prog.intermediate[a].cls
                             = IF is_boolean_sort(w.sort.rng[1]) THEN "RelationDecl"
                               ELSE "FunctionDecl"
                        /\ prog.intermediate[a].sort = to_pyv_sort(w.sort)
        /\ Len(prog.havoc_action) = IF Reported = {} THEN 0 ELSE 1
        /\ \A a \in 1..Len(prog.havoc_action) :
              LET act == prog.havoc_action[a]
                  conj == HavocConjuncts(act.body, Cardinality(Reported))
              IN  /\ act.cls = "DefinitionDecl"
                  /\ act.name = <<"_","h","a","v","o","c","_","i","n","t","e","r","m","e","d",
                                  "i","a","r","i","e","s">>
                  /\ act.params = <<>>
                  /\ Range(act.mods) = PyvNames(Reported)
                  /\ Len(act.mods) = Cardinality(Reported)
                  /\ Len(conj) = Cardinality(Reported)
                  /\ \A w \in Reported :
                        Count(conj, LAMBDA c : HavocClauseOf(c, w)) = 1

\* the initializer and an action returned witnesses, one of them returned by
\* both, and the havoc action is declared for the two witnesses
C10_Witness ==
    /\ pc = "done"
    /\ Cardinality(Reported) = 2
    /\ \E j, k \in 1..Len(log) : j # k /\ log[j].exs \cap log[k].exs # {}
    /\ Len(prog.havoc_action) = 1

\* the calls logged for a unit of translation, the passes of the loop of
\* simplify_via_smt apart
CallsOf(name, ev) == { j \in 1..Len(log) : log[j].unit = name /\ log[j].ev = ev }

\* C11: the output is written only by a run that has translated the
\* signature, the axioms, the conjectures, the initializer, every public
\* action and the intermediate declarations without an exception; a run an
\* exception ended has written nothing, takes no further step and has made
\* no call twice
C11_OutputOnlyAfterAllSteps ==
    /\ (err # "") <=> (pc = "aborted")
    /\ pc # "done" => out = <<>>
    /\ pc = "done" =>
          /\ err = ""
          /\ out = to_program(prog)
          /\ Len(prog.sorts) >= Len(mod.sorts) - 1
          /\ Len(prog.axioms) >= Len(mod.axioms)
          /\ Len(prog.invariants) = Len(mod.labeled_conjs)
          /\ Len(prog.initializers) = 1
          /\ Len(prog.actions) = Len(public_actions(mod))
          /\ Len(prog.intermediate) = Cardinality(prog.second_order_existentials)
          /\ log[Len(log)] = Event("write", <<>>)
          /\ Cardinality(CallsOf(<<>>, "write")) = 1
    /\ pc = "aborted" =>
          /\ out = <<>>
          /\ CallsOf(<<>>, "write") = {}
          /\ ~ENABLED Next
    /\ \A j \in 1..Len(log) :
          log[j].ev \in {"round_trip", "simplify_via_smt", "simplified", "declared"} =>
              CallsOf(log[j].unit, log[j].ev) = {j}

\* an exception ended the run after the initializer and an action had been
\* declared, and nothing was written
C11_Witness ==
    /\ pc = "aborted"
    /\ err = "ModifiesMismatchError"
    /\ Len(prog.initializers) = 1
    /\ Len(prog.actions) >= 1
    /\ out = <<>>

\* the symbols whose post-state form occurs in a formula
PostStateSymbols(fmla) == { new_of(x) : x \in { y \in symbols(fmla) : is_new(y) } }

\* C12: the translation of an action is aborted by the modifies assertion
\* exactly when the translated names of the symbols the source reports as
\* modified are not the translated names of the symbols whose post-state
\* form occurs in the simplified formula; the action is declared when they are
C12_MismatchIffTranslatedNamesDiffer ==
    /\ \A i \in 1..Len(units) :
          PyvNames(SourceAction(i).mod) = PyvNames(PostStateSymbols(units[i].fmla))
    /\ (pc = "aborted" /\ ctx.stage = "emit" /\ ctx.idx > 0) =>
          LET action == public_actions(mod)[ctx.idx]
              fmla == smt_to_ivy(ctx.z3, Range(mod.sorts), symbols(ctx.fmla), <<>>)
          IN  (err = "ModifiesMismatchError")
                  <=> (PyvNames(action.mod) # PyvNames(PostStateSymbols(fmla)))

\* the declarations of a list that are named as the action a
DeclaredFor(decls, a) == { i \in 1..Len(decls) : decls[i].name = to_pyv_name(a.name) }

\* C13: the program has one initializer declaration, made by one translation
\* of the formulas of all the initializers in their order, and one action
\* declaration for each action of the module whose name is a public action,
\* in the order of the actions of the module; an action that is not public is
\* neither translated nor declared, and every action is translated with the
\* set of mutable names computed before the first one
C13_OneDeclarationPerPublicAction ==
    LET public == SelectSeq(mod.actions, LAMBDA a : a.name \in mod.public_actions)
        formulas == [i \in 1..Len(mod.initializers) |-> mod.initializers[i].fmla]
        mutable == { d.name : d \in { e \in Range(prog.constants) \cup Range(prog.relations)
                                               \cup Range(prog.functions) : e.mutable } }
    IN  /\ Len(prog.actions) <= Len(public)
        /\ \A i \in 1..Len(prog.actions) :
              /\ prog.actions[i].cls = "DefinitionDecl"
              /\ prog.actions[i].name = to_pyv_name(public[i].name)
              /\ units[i].pyv_mutable_symbols = mutable
        /\ \A i \in 1..Len(mod.actions) :
              mod.actions[i].name \notin mod.public_actions =>
                  /\ EventsOf(mod.actions[i].name) = {}
                  /\ DeclaredFor(prog.actions, mod.actions[i]) = {}
        /\ Len(prog.initializers) <= 1
        /\ pc \in {"add_public_actions", "to_program", "done"} =>
              /\ Len(prog.initializers) = 1
              /\ prog.initializers[1].cls = "InitDecl"
              /\ Cardinality(CallsOf(<<"i","n","i","t">>, "simplify_via_smt")) = 1
              /\ ctx.upd = IF Len(formulas) = 1 THEN formulas[1] ELSE LgAnd(formulas)
        /\ pc \in {"to_program", "done"} =>
              /\ Len(prog.actions) = Len(public)
              /\ Len(SelectSeq(out, LAMBDA d : d.cls = "InitDecl"))
                    = IF pc = "done" THEN 1 ELSE 0
              /\ Len(SelectSeq(out, LAMBDA d : d.cls = "DefinitionDecl"))
                    = IF pc = "done" THEN Len(public) + Len(prog.havoc_action) ELSE 0

\* a module with three initializers and with an action that is not public
\* before a public one was translated
C13_Witness ==
    /\ pc = "done"
    /\ Len(mod.initializers) = 3
    /\ Len(mod.actions) = 2
    /\ mod.actions[1].name \notin mod.public_actions
    /\ Len(prog.actions) = 1
    /\ prog.actions[1].name = to_pyv_name(mod.actions[2].name)

\* the witnesses of a formula, those of first order and those of second order
Skolems(fmla) == { x \in symbols(fmla) : is_skolem(x) }
SkolemsOfFirstOrder(fmla) ==
    { x \in Skolems(fmla) : x.sort.k \in {"uninterpreted", "enumerated", "boolean"} }
SkolemsOfSecondOrder(fmla) == { x \in Skolems(fmla) : x.sort.k = "function" }

\* the place of the binder of the witness x in a list of binders, 0 if none
BinderOf(vs, x) ==
    IF \E i \in 1..Len(vs) : vs[i] = PyvSortedVar(to_pyv_name(x.name), to_pyv_sort(x.sort))
    THEN CHOOSE i \in 1..Len(vs) :
            vs[i] = PyvSortedVar(to_pyv_name(x.name), to_pyv_sort(x.sort))
    ELSE 0

\* translate_initializer has just returned
InitializerReturned == pc = "add_public_actions" /\ ctx.stage = "idle" /\ ctx.idx = 0

\* C14: translate_initializer accepts the formula of the initializers only
\* with the must-not-fail conjunct Not(And()) as its last conjunct and
\* simplifies the conjunction of the other conjuncts; the initial condition
\* declared is an existential quantification of the translation of the
\* simplified formula, whose bound variables are the witnesses of first
\* order of that formula in the increasing order of their names; no witness
\* of second order is bound, and those are what the translation returned
C14_InitializerQuantifiesFirstOrderWitnesses ==
    LET vc == make_vc(mod.initializers)
        formulas == [i \in 1..Len(mod.initializers) |-> mod.initializers[i].fmla]
    IN  /\ (pc = "add_initializers" /\ ctx.stage # "idle") =>
              /\ last_conjunct_is_must_not_fail(vc)
              /\ ~last_conjunct_is_must_not_fail(LgAnd(formulas))
              /\ ~last_conjunct_is_must_not_fail(LgAnd(<<LgNot(LgAnd(<<>>))>> \o formulas))
              /\ ~last_conjunct_is_must_not_fail(LgOr(vc.args))
              /\ without_last_conjunct(vc) = LgAnd(formulas)
              /\ ctx.fmla = LgAnd(formulas)
              /\ LgNot(LgAnd(<<>>)) \notin Range(ctx.fmla.args)
        /\ InitializerReturned =>
              LET decl == prog.initializers[1]
                  first == SkolemsOfFirstOrder(ctx.upd)
                  second == SkolemsOfSecondOrder(ctx.upd)
                  vs == decl.body.vars
              IN  /\ decl.cls = "InitDecl"
                  /\ decl.body.cls = "QuantifierExpr" /\ decl.body.op = "EXISTS"
                  /\ decl.body.args[1] = translate_logic_fmla(ctx.upd, FALSE)
                  /\ Len(vs) = Cardinality(first)
                  /\ \A x \in first : BinderOf(vs, x) > 0
                  /\ \A x, y \in first :
                        StrLess(x.name, y.name) => BinderOf(vs, x) < BinderOf(vs, y)
                  /\ \A x \in second, i \in 1..Len(vs) : vs[i].name # to_pyv_name(x.name)
                  /\ Skolems(ctx.upd) = first \cup second
                  /\ \E j \in 1..Len(log) :
                        log[j] = Returned(<<"i","n","i","t">>, second)

\* an initializer with three witnesses of first order and one of second
\* order was declared
C14_Witness ==
    /\ InitializerReturned
    /\ Len(prog.initializers) = 1
    /\ Cardinality(SkolemsOfFirstOrder(ctx.upd)) = 3
    /\ Cardinality(SkolemsOfSecondOrder(ctx.upd)) = 1
    /\ Len(prog.initializers[1].body.vars) = 3

\* the names, of identifiers and of the callees of applications, that occur
\* in a target formula underneath a next-state marker
RECURSIVE NamesUnderNew(_, _)
NamesUnderNew(e, under) ==
    LET below == under \/ (e.cls = "UnaryExpr" /\ e.op = "NEW")
    IN  (IF under /\ e.cls \in {"Id", "AppExpr"} THEN {e.name} ELSE {})
        \cup UNION { NamesUnderNew(e.args[i], below) : i \in 1..Len(e.args) }

\* C15: for the set M of mutable names an action is translated with and the
\* translation e of its simplified formula, pyv_globals_under_new(M, e) is
\* the set of the names of M that occur in e underneath a next-state marker,
\* and so holds no name that is not in M
C15_GlobalsUnderNewWithinMutable ==
    \A i \in 1..Len(units) :
        LET M == units[i].pyv_mutable_symbols
            e == translate_logic_fmla(units[i].fmla, TRUE)
        IN  pyv_globals_under_new(M, e, FALSE) = M \cap NamesUnderNew(e, FALSE)

\* the unchanged clauses conjoined to the translation e in the body of an
\* action declaration
NoopClauses(body, e) ==
    IF body = e THEN <<>>
    ELSE IF body.cls = "NaryExpr" /\ body.op = "AND" /\ Len(body.args) = 2
            /\ body.args[1] = e
    THEN IF body.args[2].cls = "NaryExpr" /\ body.args[2].op = "AND"
         THEN body.args[2].args
         ELSE <<body.args[2]>>
    ELSE <<body>>

\* c states that the symbol w, of the translated name n, is unchanged
UnchangedClauseOf(c, n, w) ==
    IF Len(w.sort.dom) = 0
    THEN c = PyvEq(PyvNew(PyvId(n)), PyvId(n))
    ELSE /\ c.cls = "QuantifierExpr" /\ c.op = "FORALL"
         /\ Len(c.vars) = Len(w.sort.dom)
         /\ \A a \in 1..Len(c.vars) : c.vars[a].sort = to_pyv_sort(w.sort.dom[a])
         /\ \A a, b \in 1..Len(c.vars) : a # b => c.vars[a].name # c.vars[b].name
         /\ LET ids == [a \in 1..Len(c.vars) |-> PyvId(c.vars[a].name)]
            IN  c.args[1] = PyvEq(PyvNew(PyvApply(n, ids)), PyvApply(n, ids))

\* C16: the body of an action declared is the translation of the simplified
\* formula when every name found under a next-state marker is the name of a
\* symbol the formula modifies; otherwise it is the conjunction of that
\* translation and of one unchanged clause for each such name that is not,
\* new(x) = x for an individual and forall X0.. new(w(X0..)) = w(X0..) for a
\* relation or a function, and of no other clause
C16_OneUnchangedClausePerName ==
    \A i \in 1..Len(units) :
        LET fmla == units[i].fmla
            e == translate_logic_fmla(fmla, TRUE)
            names == pyv_globals_under_new(units[i].pyv_mutable_symbols, e, FALSE)
                        \ PyvNames(PostStateSymbols(fmla))
            clauses == NoopClauses(prog.actions[i].body, e)
            clause_of(c, n) == \E w \in symbols(fmla) :
                                  to_pyv_name(w.name) = n /\ UnchangedClauseOf(c, n, w)
        IN  /\ names = {} => prog.actions[i].body = e
            /\ Len(clauses) = Cardinality(names)
            /\ \A n \in names : Count(clauses, LAMBDA c : clause_of(c, n)) = 1
            /\ \A j \in 1..Len(clauses) : \E n \in names : clause_of(clauses[j], n)

\* t is a universally quantified equivalence or equality one side of which
\* applies a relation of the reserved prefix to exactly the bound variables
DefinesTemporary(t) ==
    /\ t.op = "forall"
    /\ t.args[1].op \in {"iff", "eq"}
    /\ \E side \in {1, 2} :
          LET h == t.args[1].args[side]
          IN  /\ h.op = "app"
              /\ startswith(h.name, IVY_TEMPORARY_INDICATOR)
              /\ Len(h.args) = Len(t.vars)
              /\ \A a \in 1..Len(h.args) : h.args[a].op = "var"
              /\ { h.args[a].idx : a \in 1..Len(h.args) } = 0..(Len(t.vars) - 1)

\* C17: is_skolem_macro accepts a subterm of the formula under simplification
\* if and only if it is a universally quantified equivalence or equality
\* whose left-hand or right-hand side applies a relation of the reserved
\* prefix to exactly the bound variables, whichever side that is
C17_MacroOnEitherSide ==
    ctx.stage = "simplify" =>
        \A t \in subterms(ctx.z3) : is_skolem_macro(t) <=> DefinesTemporary(t)

\* C18: while simplify_via_smt eliminates macros, every pass it can take
\* replaces the chosen definition by true and every application of its head
\* by its body, so that the head is gone and strictly fewer macros remain;
\* the passes taken and the macros left never exceed the macros the formula
\* started with; the loop is left without an error, after one pass for each
\* macro and no pass after that, with a formula no subterm of which is a macro
C18_MacroCountStrictlyDecreases ==
    /\ ctx.stage = "simplify" =>
          LET cur == remaining_macros(ctx.z3)
              start == remaining_macros(formula_to_z3(ctx.fmla))
              passes == CallsOf(ctx.unit, "reduce")
          IN  /\ err = ""
              /\ Cardinality(passes) + Cardinality(cur) <= Cardinality(start)
              /\ \A f \in cur :
                    LET nxt == reduce_with_macro(ctx.z3, f, Range(mod.sorts),
                                                 symbols(ctx.fmla))
                    IN  /\ Cardinality(remaining_macros(nxt)) < Cardinality(cur)
                        /\ f \notin subterms(nxt)
                        /\ ZTrue \in subterms(nxt)
                        /\ parse_macro(f).head.name \notin z3_names(nxt)
    /\ ctx.stage = "emit" =>
          /\ err # "SimplificationUnsoundError"
          /\ remaining_macros(ctx.z3) = {}
          /\ Cardinality(CallsOf(ctx.unit, "reduce"))
                = Cardinality(remaining_macros(formula_to_z3(ctx.fmla)))
    /\ \A i \in 1..Len(log) :
          log[i].ev = "simplified" =>
              \A j \in 1..Len(log) :
                  (log[j].ev = "reduce" /\ log[j].unit = log[i].unit) => j < i

\* two macros, the second defined with the first, have both been eliminated
C18_Witness ==
    /\ ctx.stage = "simplify"
    /\ Cardinality(CallsOf(ctx.unit, "reduce")) = 2
    /\ remaining_macros(ctx.z3) = {}

\* the variables of a formula, from left to right
RECURSIVE VarLeaves(_)
VarLeaves(fmla) ==
    IF fmla.op = "Var" THEN << fmla.sym >>
    ELSE Flatten([i \in 1..Len(fmla.args) |-> VarLeaves(fmla.args[i])])

\* every variable of the formula is bound by a quantifier around it
RECURSIVE BoundIn(_, _)
BoundIn(fmla, open) ==
    IF fmla.op = "Var" THEN fmla.sym \in open
    ELSE \A i \in 1..Len(fmla.args) : BoundIn(fmla.args[i], open \cup Range(fmla.vars))

\* the deepest stack of open binders under which the solver formula has a
\* variable
RECURSIVE OpenBinders(_, _)
OpenBinders(t, depth) ==
    IF t.op = "var" THEN depth
    ELSE LET d == IF t.op \in {"forall", "exists"} THEN depth + Len(t.vars) ELSE depth
             below == { OpenBinders(t.args[i], d) : i \in 1..Len(t.args) }
         IN  IF below = {} THEN 0 ELSE CHOOSE m \in below : \A o \in below : o <= m

\* C19: for the formula of the action about to be translated and for the
\* formula under simplification, smt_to_ivy gives every bound-variable
\* reference of the solver's formula the binder the source formula has at
\* that place, the solver
\* counting the open binders innermost first and, within one quantifier, the
\* last declared first; a variable after an inner quantifier resolves as it
\* did before that quantifier, and in the formula that comes back from the
\* simplification every variable is bound by a quantifier around it
C19_BoundVariablesResolveInnermostFirst ==
    /\ (pc = "add_public_actions" /\ ctx.stage = "idle"
            /\ ctx.idx \in 1..Len(public_actions(mod))) =>
          LET action == public_actions(mod)[ctx.idx]
              fmla == LgAnd(<<LgNot(action.pre), action.tr>>)
              back == smt_to_ivy(formula_to_z3(fmla), Range(mod.sorts), symbols(fmla), <<>>)
          IN  /\ VarLeaves(back) = VarLeaves(fmla)
              /\ BoundIn(back, {})
    /\ ctx.stage \in {"simplify", "emit"} =>
          LET back == smt_to_ivy(formula_to_z3(ctx.fmla), Range(mod.sorts),
                                 symbols(ctx.fmla), <<>>)
              cur == smt_to_ivy(ctx.z3, Range(mod.sorts), symbols(ctx.fmla), <<>>)
          IN  /\ VarLeaves(back) = VarLeaves(ctx.fmla)
              /\ BoundIn(cur, {})

\* a formula with a variable under three open binders, two of them of one
\* quantifier, has been translated back
C19_Witness ==
    /\ ctx.stage = "emit"
    /\ OpenBinders(formula_to_z3(ctx.fmla), 0) = 3
    /\ \E t \in subterms(formula_to_z3(ctx.fmla)) : t.op = "forall" /\ Len(t.vars) = 2

\* the applications and identifiers of a mypyvy expression from left to
\* right, each with whether a next-state marker is directly around it
RECURSIVE Marks(_, _)
Marks(e, marked) ==
    LET below(m) == Flatten([i \in 1..Len(e.args) |-> Marks(e.args[i], m)])
    IN  IF e.cls \in {"AppExpr", "Id"}
        THEN << [name |-> e.name, marked |-> marked] >> \o below(FALSE)
        ELSE IF e.cls = "UnaryExpr" /\ e.op = "NEW" THEN below(TRUE)
        ELSE below(FALSE)

\* the applications, constants and variables of a formula from left to
\* right: for a post-state symbol the translated name of its pre-state
\* symbol and a marker, for any other the translated name and no marker
RECURSIVE TwoStateMarks(_)
TwoStateMarks(fmla) ==
    LET below == Flatten([i \in 1..Len(fmla.args) |-> TwoStateMarks(fmla.args[i])])
    IN  IF fmla.op \in {"Apply", "Const"} /\ is_new(fmla.sym)
        THEN << [name |-> to_pyv_name(new_of(fmla.sym).name), marked |-> TRUE] >> \o below
        ELSE IF fmla.op \in {"Apply", "Const", "Var"}
        THEN << [name |-> to_pyv_name(fmla.sym.name), marked |-> FALSE] >> \o below
        ELSE below

\* the same with every symbol under its own translated name and no marker
RECURSIVE OneStateMarks(_)
OneStateMarks(fmla) ==
    LET below == Flatten([i \in 1..Len(fmla.args) |-> OneStateMarks(fmla.args[i])])
    IN  IF fmla.op \in {"Apply", "Const", "Var"}
        THEN << [name |-> to_pyv_name(fmla.sym.name), marked |-> FALSE] >> \o below
        ELSE below

\* the number of next-state markers of a mypyvy expression
RECURSIVE Markers(_)
Markers(e) ==
    LET below == [i \in 1..Len(e.args) |-> Markers(e.args[i])]
        sum[i \in 0..Len(e.args)] == IF i = 0 THEN 0 ELSE sum[i - 1] + below[i]
    IN  sum[Len(e.args)] + (IF e.cls = "UnaryExpr" /\ e.op = "NEW" THEN 1 ELSE 0)

\* C20: of the formula that is about to be declared, the two-state
\* translation has a next-state marker around exactly the post-state
\* applications and constants, named by the translated name of the pre-state
\* symbol, and every other symbol under its translated name without a marker;
\* the one-state translation of the same formula has no marker, whatever
\* symbols it contains, and no axiom, invariant or initializer of the program
\* has one
C20_MarkersOnlyInTwoStateMode ==
    /\ ctx.stage = "emit" =>
          LET fmla == smt_to_ivy(ctx.z3, Range(mod.sorts), symbols(ctx.fmla), <<>>)
              two == translate_logic_fmla(fmla, TRUE)
              one == translate_logic_fmla(fmla, FALSE)
          IN  /\ Marks(two, FALSE) = TwoStateMarks(fmla)
              /\ Markers(two) = Len(SelectSeq(TwoStateMarks(fmla), LAMBDA m : m.marked))
              /\ Marks(one, FALSE) = OneStateMarks(fmla)
              /\ Markers(one) = 0
    /\ \A d \in Range(prog.axioms) \cup Range(prog.invariants) \cup Range(prog.initializers) :
          Markers(d.body) = 0

\* an action formula with a post-state application and pre-state symbols is
\* about to be declared
C20_Witness ==
    /\ ctx.stage = "emit"
    /\ pc = "add_public_actions"
    /\ LET fmla == smt_to_ivy(ctx.z3, Range(mod.sorts), symbols(ctx.fmla), <<>>)
       IN  /\ \E i \in 1..Len(TwoStateMarks(fmla)) : TwoStateMarks(fmla)[i].marked
           /\ \E i \in 1..Len(TwoStateMarks(fmla)) : ~TwoStateMarks(fmla)[i].marked
           /\ Markers(translate_logic_fmla(fmla, TRUE)) > 0

\* the names the declarations of a list declare immutable
ImmutableNames(decls) ==
    { decls[i].name : i \in { j \in 1..Len(decls) :
                                 /\ decls[j].cls \in {"ConstantDecl", "RelationDecl",
                                                      "FunctionDecl"}
                                 /\ ~decls[j].mutable } }

\* C21: no action of the program, the havoc action included, names in its
\* modifies-clauses a constant, relation or function the program declares
\* immutable, and none does in what is written
C21_NoImmutableSymbolModified ==
    /\ \A d \in Range(prog.actions) \cup Range(prog.havoc_action) :
          Range(d.mods) \cap ImmutableNames(prog.constants \o prog.relations
                                              \o prog.functions \o prog.intermediate) = {}
    /\ \A i \in 1..Len(out) :
          out[i].cls = "DefinitionDecl" => Range(out[i].mods) \cap ImmutableNames(out) = {}

\* the places before i of the declarations of a constant, relation or
\* function of the name n in what is written
DeclaredBefore(n, i) ==
    { j \in 1..(i - 1) : /\ out[j].cls \in {"ConstantDecl", "RelationDecl", "FunctionDecl"}
                         /\ out[j].name = n }

\* C22: in what is written, every name of the modifies-clauses of an action,
\* public or havoc, is the name of a constant, relation or function declared
\* before the action; when the name is that of a witness of second order one
\* of these declarations is its intermediate declaration, and the havoc action
\* names every witness of second order
C22_ModifiedNamesDeclaredBefore ==
    pc = "done" =>
        /\ \A i \in 1..Len(out) :
              out[i].cls = "DefinitionDecl" =>
                  \A n \in Range(out[i].mods) :
                      /\ DeclaredBefore(n, i) # {}
                      /\ n \in PyvNames(prog.second_order_existentials) =>
                            \E j \in DeclaredBefore(n, i) :
                                /\ out[j] \in Range(prog.intermediate)
                                /\ out[j].mutable
        /\ \A d \in Range(prog.havoc_action) :
              Range(d.mods) = PyvNames(prog.second_order_existentials)
        /\ Range(prog.actions) \cup Range(prog.havoc_action)
              = { out[i] : i \in { j \in 1..Len(out) : out[j].cls = "DefinitionDecl" } }

\* a public action that names a witness of second order in its
\* modifies-clauses was written, after the havoc action
C22_Witness ==
    /\ pc = "done"
    /\ Len(prog.havoc_action) = 1
    /\ \E d \in Range(prog.actions) :
          /\ Range(d.mods) \cap PyvNames(prog.second_order_existentials) # {}
          /\ Range(d.mods) \ PyvNames(prog.second_order_existentials) # {}

====
